---- MODULE Spec2Model ----
(***************************************************************************)
(* A model of the PLASMA tile runtime core: tile descriptors and their    *)
(* addressing algebra (include/plasma_descriptor.h), the column-major to  *)
(* tile translation (compute/pdge2desc.c), sequences, requests and the    *)
(* task bodies that observe them (core_blas/*.c, compute/p*.c), and the   *)
(* synchronous entry points (compute/zgeqrs.c, zsyr2k.c, ztrmm.c).        *)
(*                                                                         *)
(* Addresses are element offsets into a descriptor's backing store; the   *)
(* byte address of the source is matrix + offset*eltsize.                 *)
(***************************************************************************)
EXTENDS Integers, Sequences, FiniteSets, TLC

VARIABLES
    descA,      \* a tile descriptor covering its whole matrix (origin 0)
    viewA,      \* the descriptor in use: descA itself or a view of it
    probe,      \* the last descriptor query made and its result
    seqStatus,  \* sequence->status
    reqStatus,  \* request->status of every request
    tasks,      \* tasks submitted to the runtime and not yet completed
    nextId,     \* number of tasks submitted so far
    failLog,    \* the error codes passed to plasma_request_fail, in order
    lastCall,   \* the last call of a task-submitting routine: what it
                \* found, what it left in its request, how many tasks it
                \* submitted
    outWrites,  \* <<kind, failed>>: a task body of that kind has written
                \* its out/inout region, the sequence status being
                \* non-Success (failed) or Success when the body started
    pAlda,      \* leading dimension of the user array handed to the
                \* layout translation (0 before the call)
    tileStore,  \* <<offset, source index>> of every element written to
                \* tile storage
    nWrites,    \* number of element writes made to tile storage
    master,     \* the thread inside a synchronous entry point: the
                \* routine, its position in the parallel region, its
                \* tile descriptors and its return value
    subLog,     \* the phase (in, alg, out) of every task the master
                \* thread has submitted, in submission order
    gemm,       \* the operands of the plasma_pzgemm call under study: its
                \* scalars, descriptors and the contents of the three
                \* backing stores
    laset,      \* the operands of the plasma_zlaset call under test: its
                \* arguments, the user array, the reference copy and the
                \* tile storage
    mem,        \* the memory of a synchronous entry point: the user arrays
                \* A, B, C, the storage of their tile matrices, and the
                \* tiles an algorithm kernel has updated
    ssq,        \* the symmetric norm computation under study: the matrix,
                \* the scale and sumsq arrays of its tiles, the value
                \* written by core_omp_zsyssq_aux, and what that task read
                \* and divided by
    loop        \* one call of core_zgeqrt or core_zgelqt: its arguments, its
                \* position, the loop variable i, the LAPACK calls made so
                \* far and the value returned

\* -------------------------------------------------------------------------
\* Bounds of the model
\* -------------------------------------------------------------------------
MaxNb == 2      \* tile heights and widths range over 1..MaxNb
MaxLm == 3      \* matrix heights range over 1..MaxLm
MaxLn == 3      \* matrix widths range over 1..MaxLn
NReq  == 2      \* requests are numbered 1..NReq
MaxTasks == 2   \* at most MaxTasks tasks are submitted to one sequence
MaxInfo == 2    \* LAPACK info values range over -MaxInfo..MaxInfo
MaxFails == 2   \* calls of plasma_request_fail followed on one sequence
MaxDim == 2     \* matrix dimensions handed to the entry points: 0..MaxDim
MaxBand == 2    \* band widths kl, ku range over 0..MaxBand
NWorkers == 2    \* worker threads: omp_get_thread_num() ranges over 1..NWorkers
MaxGemm == 3    \* GEMM dimensions M, N (1..MaxGemm) and K (0..MaxGemm)
MaxNt == 2      \* the symmetric matrices of the norm have 1..MaxNt tile rows
MaxPanel == 3   \* m, n and ib of a followed panel kernel range over 0..MaxPanel

\* -------------------------------------------------------------------------
\* Status codes (plasma_types.h)
\* -------------------------------------------------------------------------
PlasmaSuccess           == 0
PlasmaErrorIllegalValue == 0 - 103
PlasmaErrorOutOfMemory  == 0 - 104
PlasmaErrorNullParameter == 0 - 105
PlasmaErrorSequence     == 0 - 107

\* -------------------------------------------------------------------------
\* Small helpers of the source (plasma_internal.h: imin, imax)
\* -------------------------------------------------------------------------
imax(a, b) == IF a > b THEN a ELSE b
imin(a, b) == IF a < b THEN a ELSE b

\* ceil(a/b) for a >= 0, b >= 1
CeilDiv(a, b) == (a + b - 1) \div b

\* -------------------------------------------------------------------------
\* Tile descriptor (plasma_desc_t)
\* -------------------------------------------------------------------------
ZoneOrders ==
    { <<"A12", "A21", "A22">>, <<"A12", "A22", "A21">>,
      <<"A21", "A12", "A22">>, <<"A21", "A22", "A12">>,
      <<"A22", "A12", "A21">>, <<"A22", "A21", "A12">> }

\* Number of elements of each of the four storage zones.
ZoneSize(mb, nb, lm, ln, z) ==
    CASE z = "A11" -> (lm - (lm % mb)) * (ln - (ln % nb))
      [] z = "A12" -> (lm - (lm % mb)) * (ln % nb)
      [] z = "A21" -> (lm % mb) * (ln - (ln % nb))
      [] z = "A22" -> (lm % mb) * (ln % nb)

\* Offset of zone z when A11 comes first and the other three follow
\* contiguously in the order zord.
ZoneOffset(mb, nb, lm, ln, zord, z) ==
    LET p == CHOOSE k \in 1..3 : zord[k] = z
    IN  ZoneSize(mb, nb, lm, ln, "A11")
        + (IF p > 1 THEN ZoneSize(mb, nb, lm, ln, zord[1]) ELSE 0)
        + (IF p > 2 THEN ZoneSize(mb, nb, lm, ln, zord[2]) ELSE 0)

\* plasma_desc_general_init: a descriptor over a contiguous backing store of
\* lm*ln elements; lmt, lnt, mt, nt are the derived tile counts.
plasma_desc_general_init(mb, nb, lm, ln, i, j, m, n, zord) ==
    [ type |-> "PlasmaGeneral", uplo |-> "PlasmaGeneral",
      kl  |-> 0,   ku  |-> 0,
      mb  |-> mb,  nb  |-> nb,
      lm  |-> lm,  ln  |-> ln,
      lmt |-> CeilDiv(lm, mb),
      lnt |-> CeilDiv(ln, nb),
      i   |-> i,   j   |-> j,
      m   |-> m,   n   |-> n,
      mt  |-> IF m = 0 THEN 0 ELSE CeilDiv((i % mb) + m, mb),
      nt  |-> IF n = 0 THEN 0 ELSE CeilDiv((j % nb) + n, nb),
      A12 |-> ZoneOffset(mb, nb, lm, ln, zord, "A12"),
      A21 |-> ZoneOffset(mb, nb, lm, ln, zord, "A21"),
      A22 |-> ZoneOffset(mb, nb, lm, ln, zord, "A22") ]

\* plasma_desc_view: same matrix and tile grid, narrower origin and extent,
\* tile counts refreshed.
plasma_desc_view(A, i, j, m, n) ==
    [ A EXCEPT
        !.i  = A.i + i,
        !.j  = A.j + j,
        !.m  = m,
        !.n  = n,
        !.mt = IF m = 0 THEN 0 ELSE CeilDiv(((A.i + i) % A.mb) + m, A.mb),
        !.nt = IF n = 0 THEN 0 ELSE CeilDiv(((A.j + j) % A.nb) + n, A.nb) ]

\* A plausible slip: the A12 strip is stepped by full-width tiles.
plasma_tile_addr_general_a12step(A, m, n) ==
    LET mm  == m + A.i \div A.mb
        nn  == n + A.j \div A.nb
        lm1 == A.lm \div A.mb
        ln1 == A.ln \div A.nb
    IN  IF mm < lm1
        THEN IF nn < ln1
             THEN A.mb * A.nb * (mm + lm1 * nn)
             ELSE A.A12 + (A.mb * A.nb * mm)
        ELSE IF nn < ln1
             THEN A.A21 + (A.nb * (A.lm % A.mb) * nn)
             ELSE A.A22

\* A plausible slip: the origin of the submatrix is not added to the index.
plasma_tile_addr_general_noorigin(A, m, n) ==
    LET mm  == m
        nn  == n
        lm1 == A.lm \div A.mb
        ln1 == A.ln \div A.nb
    IN  IF mm < lm1
        THEN IF nn < ln1
             THEN A.mb * A.nb * (mm + lm1 * nn)
             ELSE A.A12 + (A.mb * (A.ln % A.nb) * mm)
        ELSE IF nn < ln1
             THEN A.A21 + (A.nb * (A.lm % A.mb) * nn)
             ELSE A.A22

plasma_tile_addr_general(A, m, n) ==
    LET mm  == m + A.i \div A.mb
        nn  == n + A.j \div A.nb
        lm1 == A.lm \div A.mb
        ln1 == A.ln \div A.nb
    IN  IF mm < lm1
        THEN IF nn < ln1
             THEN A.mb * A.nb * (mm + lm1 * nn)
             ELSE A.A12 + (A.mb * (A.ln % A.nb) * mm)
        ELSE IF nn < ln1
             THEN A.A21 + (A.nb * (A.lm % A.mb) * nn)
             ELSE A.A22

\* kut of a band descriptor: tile rows above the diagonal tile
band_kut(uplo, A) ==
    IF uplo = "PlasmaGeneral" THEN (A.kl + A.kl + A.nb - 1) \div A.nb
    ELSE IF uplo = "PlasmaUpper" THEN (A.ku + A.nb - 1) \div A.nb
    ELSE 0

plasma_tile_addr_general_band(A, m, n) ==
    plasma_tile_addr_general(A, band_kut(A.uplo, A) + m - n, n)

plasma_tile_addr(A, m, n) ==
    IF A.type = "PlasmaGeneral"
    THEN plasma_tile_addr_general(A, m, n)
    ELSE plasma_tile_addr_general_band(A, m, n)

plasma_tile_mmain(A, k) ==
    IF A.i \div A.mb + k < A.lm \div A.mb THEN A.mb ELSE A.lm % A.mb

plasma_tile_nmain(A, k) ==
    IF A.j \div A.nb + k < A.ln \div A.nb THEN A.nb ELSE A.ln % A.nb

plasma_tile_mview(A, k) ==
    IF A.i \div A.mb + k < A.m \div A.mb THEN A.mb ELSE A.m % A.mb

plasma_tile_nview(A, k) ==
    IF A.j \div A.nb + k < A.n \div A.nb THEN A.nb ELSE A.n % A.nb

BLKLDD_BAND(uplo, A, m, n) ==
    plasma_tile_mmain(A, band_kut(uplo, A) + m - n)

\* plasma_desc_general_band_init: a general descriptor over the packed band
\* storage, tagged with uplo, kl and ku.
plasma_desc_general_band_init(uplo, mb, nb, lm, ln, i, j, m, n, kl, ku) ==
    [ plasma_desc_general_init(mb, nb, lm, ln, i, j, m, n,
                               <<"A21", "A12", "A22">>)
        EXCEPT !.type = "PlasmaGeneralBand", !.uplo = uplo,
               !.kl = kl, !.ku = ku ]

\* Integer division of C: the quotient is truncated towards zero.
CDiv(a, b) == IF a >= 0 THEN a \div b ELSE 0 - ((0 - a) \div b)

descVars == <<descA, viewA, probe, gemm, laset, mem, ssq, loop>>
seqVars  == <<seqStatus, reqStatus, tasks, nextId, failLog, lastCall,
              outWrites>>
copyVars == <<pAlda, tileStore, nWrites>>
entryVars == <<master, subLog>>

\* -------------------------------------------------------------------------
\* Descriptor queries
\* -------------------------------------------------------------------------
NoProbe == [kind |-> "none", a |-> 0, b |-> 0, v1 |-> 0, v2 |-> 0]

\* x = plasma_tile_addr(A, tm, tn) for a tile of the descriptor in use
TileAddr(tm, tn) ==
    /\ tm \in 0..(viewA.mt - 1)
    /\ tn \in 0..(viewA.nt - 1)
    /\ probe' = [kind |-> "addr", a |-> tm, b |-> tn,
                 v1 |-> plasma_tile_addr(viewA, tm, tn),
                 v2 |-> plasma_tile_mmain(viewA, tm)
                        * plasma_tile_nmain(viewA, tn)]
    /\ UNCHANGED <<descA, viewA>>
    /\ UNCHANGED <<seqVars, copyVars, entryVars, gemm, laset, mem, ssq,
                   loop>>

\* plasma_tile_mview / plasma_tile_mmain of tile row k
TileRowDims(k) ==
    /\ k \in 0..(viewA.mt - 1)
    /\ probe' = [kind |-> "rows", a |-> k, b |-> 0,
                 v1 |-> plasma_tile_mview(viewA, k),
                 v2 |-> plasma_tile_mmain(viewA, k)]
    /\ UNCHANGED <<descA, viewA>>
    /\ UNCHANGED <<seqVars, copyVars, entryVars, gemm, laset, mem, ssq,
                   loop>>

\* plasma_tile_nview / plasma_tile_nmain of tile column k
TileColDims(k) ==
    /\ k \in 0..(viewA.nt - 1)
    /\ probe' = [kind |-> "cols", a |-> k, b |-> 0,
                 v1 |-> plasma_tile_nview(viewA, k),
                 v2 |-> plasma_tile_nmain(viewA, k)]
    /\ UNCHANGED <<descA, viewA>>
    /\ UNCHANGED <<seqVars, copyVars, entryVars, gemm, laset, mem, ssq,
                   loop>>

\* viewA = plasma_desc_view(descA, i, j, m, n)
DescView(i, j, m, n) ==
    /\ i + m <= descA.m
    /\ j + n <= descA.n
    /\ viewA' = plasma_desc_view(descA, i, j, m, n)
    /\ probe' = NoProbe
    /\ UNCHANGED descA
    /\ UNCHANGED <<seqVars, copyVars, entryVars, gemm, laset, mem, ssq,
                   loop>>

vars == <<descA, viewA, probe, seqStatus, reqStatus, tasks, nextId,
          failLog, lastCall, outWrites, pAlda, tileStore, nWrites,
          master, subLog, gemm, laset, mem, ssq, loop>>

NoCall == [name |-> "none", q |-> 1, valid |-> TRUE,
           seqBefore |-> PlasmaSuccess,
           reqBefore |-> PlasmaSuccess, reqAfter |-> PlasmaSuccess,
           submitted |-> 0]

\* State of the parts of the program a specification does not exercise.
IdleSeq ==
    /\ seqStatus = PlasmaSuccess
    /\ reqStatus = [q \in 1..NReq |-> PlasmaSuccess]
    /\ tasks = {}
    /\ nextId = 0
    /\ failLog = <<>>
    /\ lastCall = NoCall
    /\ outWrites = {}

IdleCopy ==
    /\ pAlda = 0
    /\ tileStore = {}
    /\ nWrites = 0

\* No synchronous entry point has been called.
NoParams == [side |-> "none", uplo |-> "none", trans |-> "none",
             diag |-> "none", alpha |-> 0, beta |-> 0]

NoDescs == [mat \in {"A", "B", "C"} |->
              plasma_desc_general_init(1, 1, 0, 0, 0, 0, 0, 0,
                                       <<"A21", "A12", "A22">>)]

NoMaster == [routine |-> "none", pc |-> 0, entered |-> FALSE,
             done |-> FALSE, ret |-> PlasmaSuccess, fault |-> "none",
             descs |-> NoDescs, Tok |-> TRUE, p |-> NoParams,
             args |-> << >>, created |-> << >>, freed |-> << >>,
             null |-> {}]

IdleEntry ==
    /\ master = NoMaster
    /\ subLog = << >>

\* No plasma_pzgemm call is under study.
NoGemm == [transA |-> "none", transB |-> "none", alpha |-> 0, beta |-> 0,
           A |-> NoDescs["A"], B |-> NoDescs["B"], C |-> NoDescs["C"],
           Amem |-> << >>, Bmem |-> << >>, C0mem |-> << >>,
           Cmem |-> << >>]

IdleGemm == gemm = NoGemm

\* No plasma_zlaset call is under test.
NoLaset == [uplo |-> "none", m |-> 0, n |-> 0, lda |-> 1, alpha |-> 0,
            beta |-> 0, desc |-> NoDescs["A"], A |-> << >>, Aref |-> << >>,
            tiles |-> << >>]

IdleLaset == laset = NoLaset

\* The memory before an entry point is called.  Elements are addressed by
\* their row and column in the matrix; a user array holds the non-zero
\* value ArrayVal, tile storage comes from malloc and holds Uninit.
Mats == {"A", "B", "C"}
Elems == (0..(MaxDim - 1)) \X (0..(MaxDim - 1))
Uninit == 0 - 1
ArrayVal(mat, r, c) ==
    (IF mat = "A" THEN 1 ELSE IF mat = "B" THEN 2 ELSE 3) + r + MaxDim * c

NoMem == [user |-> [mat \in Mats |->
                      [e \in Elems |-> ArrayVal(mat, e[1], e[2])]],
          tile |-> [mat \in Mats |-> [e \in Elems |-> Uninit]],
          touched |-> {}]

IdleMem == mem = NoMem

\* No norm computation is under study.
NoSsq == [uplo |-> "none", nt |-> 0, nb |-> 0, A |-> << >>,
          scale |-> << >>, sumsq |-> << >>, done |-> {},
          valued |-> FALSE, value |-> [num |-> 0, den |-> 1],
          reads |-> {}, divzero |-> FALSE]

IdleSsq == ssq = NoSsq

\* No panel kernel is being followed.
NoLoop == [kind |-> "none", m |-> 0, n |-> 0, ib |-> 0, lda |-> 0,
           ldt |-> 0, lwork |-> 0, pc |-> "idle", i |-> 0, calls |-> << >>,
           ret |-> PlasmaSuccess]

IdleLoop == loop = NoLoop

\* -------------------------------------------------------------------------
\* SpecDesc: every whole-matrix general descriptor, every zone order
\* -------------------------------------------------------------------------
InitDesc ==
    /\ \E mb \in 1..MaxNb, nb \in 1..MaxNb, lm \in 1..MaxLm, ln \in 1..MaxLn,
          zord \in ZoneOrders :
          descA = plasma_desc_general_init(mb, nb, lm, ln, 0, 0, lm, ln, zord)
    /\ viewA = descA
    /\ probe = NoProbe
    /\ IdleSeq
    /\ IdleEntry
    /\ IdleGemm
    /\ IdleLaset
    /\ IdleMem
    /\ IdleSsq
    /\ IdleLoop
    /\ IdleCopy

NextDesc ==
    \/ \E tm \in 0..MaxLm, tn \in 0..MaxLn : TileAddr(tm, tn)
    \/ \E k \in 0..MaxLm : TileRowDims(k)
    \/ \E k \in 0..MaxLn : TileColDims(k)

SpecDesc == InitDesc /\ [][NextDesc]_vars

\* -------------------------------------------------------------------------
\* SpecView: whole-matrix descriptors and all their views
\* -------------------------------------------------------------------------
InitView ==
    /\ \E mb \in 1..MaxNb, nb \in 1..MaxNb, lm \in 1..MaxLm, ln \in 1..MaxLn :
          descA = plasma_desc_general_init(mb, nb, lm, ln, 0, 0, lm, ln,
                                           <<"A21", "A12", "A22">>)
    /\ viewA = descA
    /\ probe = NoProbe
    /\ IdleSeq
    /\ IdleEntry
    /\ IdleGemm
    /\ IdleLaset
    /\ IdleMem
    /\ IdleSsq
    /\ IdleLoop
    /\ IdleCopy

NextView ==
    \/ \E i \in 0..MaxLm, j \in 0..MaxLn, m \in 1..MaxLm, n \in 1..MaxLn :
          DescView(i, j, m, n)
    \/ \E tm \in 0..MaxLm, tn \in 0..MaxLn : TileAddr(tm, tn)
    \/ \E k \in 0..MaxLm : TileRowDims(k)
    \/ \E k \in 0..MaxLn : TileColDims(k)

SpecView == InitView /\ [][NextView]_vars

\* -------------------------------------------------------------------------
\* Descriptor claims
\* -------------------------------------------------------------------------
\* All tile indices of the whole tile grid of A.
TileIndices(A) == (0..(A.lmt - 1)) \X (0..(A.lnt - 1))

\* The elements [addr, addr + tile_mmain*tile_nmain) of tile t.
TileRange(A, t) ==
    LET a == plasma_tile_addr(A, t[1], t[2])
    IN  a .. (a + plasma_tile_mmain(A, t[1]) * plasma_tile_nmain(A, t[2]) - 1)

\* The zone a tile belongs to by (mm < lm/mb, nn < ln/nb), and its extent.
ZoneOfTile(A, mm, nn) ==
    IF mm < A.lm \div A.mb
    THEN (IF nn < A.ln \div A.nb THEN "A11" ELSE "A12")
    ELSE (IF nn < A.ln \div A.nb THEN "A21" ELSE "A22")

ZoneBase(A, z) ==
    CASE z = "A11" -> 0
      [] z = "A12" -> A.A12
      [] z = "A21" -> A.A21
      [] z = "A22" -> A.A22

ZoneExtent(A, z) ==
    ZoneBase(A, z) ..
        (ZoneBase(A, z) + ZoneSize(A.mb, A.nb, A.lm, A.ln, z) - 1)

\* C7: for a whole-matrix general descriptor (origin 0) with contiguous
\* zones, the element ranges of distinct tiles are pairwise disjoint, their
\* union is exactly the lm*ln elements of the backing store, and every
\* address handed out lies in the zone selected by (mm < lm/mb, nn < ln/nb).
C7_AddressingBijection ==
    LET A == descA
        T == TileIndices(A)
    IN  /\ \A t1 \in T, t2 \in T :
              t1 # t2 => TileRange(A, t1) \cap TileRange(A, t2) = {}
        /\ UNION { TileRange(A, t) : t \in T } = 0..(A.lm * A.ln - 1)
        /\ probe.kind = "addr" =>
              /\ probe.v2 >= 1
              /\ (probe.v1 .. (probe.v1 + probe.v2 - 1))
                    \subseteq ZoneExtent(A, ZoneOfTile(A, probe.a, probe.b))

\* C7 witness: the corner tile of a matrix with all four zones was addressed.
C7_Witness ==
    /\ probe.kind = "addr"
    /\ descA.lmt > 1 /\ descA.lnt > 1
    /\ descA.lm % descA.mb # 0 /\ descA.ln % descA.nb # 0
    /\ probe.a = descA.lmt - 1 /\ probe.b = descA.lnt - 1
    /\ probe.v1 = descA.A22

\* Rows of the submatrix [i, i+m) that fall in tile row i/mb + k.
RowsInTile(A, k) ==
    Cardinality({ r \in A.i..(A.i + A.m - 1) :
                    r \div A.mb = A.i \div A.mb + k })

\* Columns of the submatrix [j, j+n) that fall in tile column j/nb + k.
ColsInTile(A, k) ==
    Cardinality({ c \in A.j..(A.j + A.n - 1) :
                    c \div A.nb = A.j \div A.nb + k })

\* Stored height of absolute tile row kk, stored width of tile column kk.
StoredRows(A, kk) == Cardinality({ r \in 0..(A.lm - 1) : r \div A.mb = kk })
StoredCols(A, kk) == Cardinality({ c \in 0..(A.ln - 1) : c \div A.nb = kk })

RECURSIVE SumMView(_, _)
SumMView(A, k) ==
    IF k < 0 THEN 0 ELSE plasma_tile_mview(A, k) + SumMView(A, k - 1)

RECURSIVE SumNView(_, _)
SumNView(A, k) ==
    IF k < 0 THEN 0 ELSE plasma_tile_nview(A, k) + SumNView(A, k - 1)

\* C8 (as claimed): for every descriptor, views with non-zero origin
\* included, plasma_tile_mview(A,k) is the number of rows of [i, i+m) in tile
\* row i/mb + k, so it lies in 1..mb and sums to m over k; likewise
\* plasma_tile_nview; and plasma_tile_mmain is the stored height of the row.
C8_ViewExtentsAsClaimed ==
    /\ probe.kind = "rows" =>
          /\ probe.v1 = RowsInTile(viewA, probe.a)
          /\ probe.v1 \in 1..viewA.mb
          /\ SumMView(viewA, viewA.mt - 1) = viewA.m
          /\ probe.v2 = StoredRows(viewA, viewA.i \div viewA.mb + probe.a)
    /\ probe.kind = "cols" =>
          /\ probe.v1 = ColsInTile(viewA, probe.a)
          /\ probe.v1 \in 1..viewA.nb
          /\ SumNView(viewA, viewA.nt - 1) = viewA.n
          /\ probe.v2 = StoredCols(viewA, viewA.j \div viewA.nb + probe.a)

\* Address of element (r, c) of the submatrix of A: column-major inside its
\* tile with leading dimension tile_mmain of the tile row.
ElemAddr(A, r, c) ==
    LET ar == A.i + r
        ac == A.j + c
        tm == ar \div A.mb - A.i \div A.mb
        tn == ac \div A.nb - A.j \div A.nb
    IN  plasma_tile_addr(A, tm, tn)
        + (ar % A.mb) + (ac % A.nb) * plasma_tile_mmain(A, tm)

\* C9: a view shares the parent's tile grid and zones; the address of
\* view-local tile (tm, tn) is the address of the parent tile holding parent
\* element (i + tm*mb, j + tn*nb); element (r, c) read through the view is
\* element (i + r, j + c) of the parent.
C9_ViewCorrect ==
    LET P  == descA
        V  == viewA
        di == V.i - P.i
        dj == V.j - P.j
    IN  /\ V.mb = P.mb /\ V.nb = P.nb /\ V.lm = P.lm /\ V.ln = P.ln
        /\ V.lmt = P.lmt /\ V.lnt = P.lnt
        /\ V.A12 = P.A12 /\ V.A21 = P.A21 /\ V.A22 = P.A22
        /\ \A tm \in 0..(V.mt - 1), tn \in 0..(V.nt - 1) :
              plasma_tile_addr(V, tm, tn) =
                  plasma_tile_addr(P, (di + tm * P.mb) \div P.mb,
                                      (dj + tn * P.nb) \div P.nb)
        /\ \A r \in 0..(V.m - 1), c \in 0..(V.n - 1) :
              /\ ElemAddr(V, r, c) = ElemAddr(P, di + r, dj + c)
              /\ (V.i + r) \div V.mb - V.i \div V.mb < V.mt
              /\ (V.j + c) \div V.nb - V.j \div V.nb < V.nt
        /\ probe.kind = "addr" =>
              probe.v1 = plasma_tile_addr(P, (di + probe.a * P.mb) \div P.mb,
                                             (dj + probe.b * P.nb) \div P.nb)

\* C9 witness: a tile beyond the first was addressed through a view whose
\* origin is neither zero nor tile-aligned.
C9_Witness ==
    /\ probe.kind = "addr"
    /\ viewA.i % viewA.mb # 0
    /\ viewA.j >= viewA.nb
    /\ probe.a > 0

\* -------------------------------------------------------------------------
\* Column-major to tile translation (compute/pdge2desc.c)
\* -------------------------------------------------------------------------
\* Edge ranges of the subblock of tile (m, n).
pdge2desc_x1(A, n) == IF n = 0 THEN A.j % A.nb ELSE 0
pdge2desc_y1(A, m) == IF m = 0 THEN A.i % A.mb ELSE 0
pdge2desc_x2(A, n) ==
    IF n = A.nt - 1 THEN ((A.j + A.n - 1) % A.nb) + 1 ELSE A.nb
pdge2desc_y2(A, m) ==
    IF m = A.mt - 1 THEN ((A.i + A.m - 1) % A.mb) + 1 ELSE A.mb

\* The core_omp_dlacpy call made for tile (m, n): args are
\* <<rows, cols, source index in pA, lda, destination offset, ldb>>.
pdge2desc_task(A, lda, q, id, m, n) ==
    LET ldt == plasma_tile_mmain(A, m)
        x1  == pdge2desc_x1(A, n)
        y1  == pdge2desc_y1(A, m)
        x2  == pdge2desc_x2(A, n)
        y2  == pdge2desc_y2(A, m)
        f77 == A.nb * lda * n + A.mb * m
        bdl == plasma_tile_addr(A, m, n)
    IN  [ kind |-> "dlacpy", id |-> id, req |-> q, pc |-> "ready",
          args |-> << y2 - y1, x2 - x1,
                      f77 + (x1 * lda + y1), lda,
                      bdl + (x1 * A.nb + y1), ldt >> ]

\* plasma_pdge2desc(pA, lda, A, sequence, request) with A = viewA
plasma_pdge2desc(lda, q) ==
    /\ pAlda = 0
    /\ pAlda' = lda
    /\ IF seqStatus # PlasmaSuccess
       THEN UNCHANGED <<tasks, nextId>>
       ELSE /\ tasks' = tasks \cup
                  { pdge2desc_task(viewA, lda, q,
                                   nextId + m * viewA.nt + n, m, n) :
                      m \in 0..(viewA.mt - 1), n \in 0..(viewA.nt - 1) }
            /\ nextId' = nextId + viewA.mt * viewA.nt
    /\ lastCall' = [name |-> "plasma_pdge2desc", q |-> q, valid |-> TRUE,
                    seqBefore |-> seqStatus,
                    reqBefore |-> reqStatus[q], reqAfter |-> reqStatus[q],
                    submitted |-> nextId' - nextId]
    /\ UNCHANGED <<entryVars, descVars, seqStatus, reqStatus, failLog, outWrites,
                   tileStore, nWrites>>

\* Task body of core_omp_dlacpy: B[r + c*ldb] = A[r + c*lda] for the whole
\* rows-by-cols block, unless the sequence has failed.
core_omp_dlacpy(t) ==
    /\ t \in tasks
    /\ t.kind = "dlacpy"
    /\ tasks' = tasks \ {t}
    /\ IF seqStatus = PlasmaSuccess
       THEN LET rows == t.args[1]
                cols == t.args[2]
                src  == t.args[3]
                lda  == t.args[4]
                dst  == t.args[5]
                ldb  == t.args[6]
            IN  /\ tileStore' = tileStore \cup
                      { << dst + r + c * ldb, src + r + c * lda >> :
                          r \in 0..(rows - 1), c \in 0..(cols - 1) }
                /\ nWrites' = nWrites + rows * cols
       ELSE UNCHANGED <<tileStore, nWrites>>
    /\ UNCHANGED <<entryVars, descVars, seqStatus, reqStatus, nextId, failLog,
                   lastCall, outWrites, pAlda>>

\* SpecCopy: one translation of any view of any descriptor, tasks run in
\* any order.
InitCopy ==
    /\ \E mb \in 1..MaxNb, nb \in 1..MaxNb, lm \in 1..MaxLm, ln \in 1..MaxLn :
          /\ descA = plasma_desc_general_init(mb, nb, lm, ln, 0, 0, lm, ln,
                                              <<"A21", "A12", "A22">>)
          /\ \E i \in 0..(lm - 1), j \in 0..(ln - 1) :
                \E m \in 1..(lm - i), n \in 1..(ln - j) :
                    viewA = plasma_desc_view(descA, i, j, m, n)
    /\ probe = NoProbe
    /\ seqStatus \in {PlasmaSuccess, PlasmaErrorSequence}
    /\ reqStatus = [q \in 1..NReq |-> PlasmaSuccess]
    /\ tasks = {}
    /\ nextId = 0
    /\ failLog = <<>>
    /\ lastCall = NoCall
    /\ outWrites = {}
    /\ IdleEntry
    /\ IdleGemm
    /\ IdleLaset
    /\ IdleMem
    /\ IdleSsq
    /\ IdleLoop
    /\ IdleCopy

NextCopy ==
    \/ \E pad \in 0..1 : plasma_pdge2desc(descA.lm + pad, 1)
    \/ \E t \in tasks : core_omp_dlacpy(t)

SpecCopy == InitCopy /\ [][NextCopy]_vars

\* Index in pA of element (r, c) of the submatrix; pA[0] is the element at
\* the tile-aligned origin (i - i mod mb, j - j mod nb).
SrcIndex(A, lda, r, c) == ((A.i % A.mb) + r) + ((A.j % A.nb) + c) * lda

\* What the translation of A should have written: element (r, c) of the
\* subblock of tile (m, n) at (y1 + r) + (x1 + c)*tile_mmain(m) from the
\* address of the tile.
ClaimedCopy(A, lda) ==
    UNION { { << plasma_tile_addr(A, t[1], t[2])
                   + (pdge2desc_y1(A, t[1]) + r)
                   + (pdge2desc_x1(A, t[2]) + c) * plasma_tile_mmain(A, t[1]),
                 A.nb * lda * t[2] + A.mb * t[1]
                   + (pdge2desc_y1(A, t[1]) + r)
                   + (pdge2desc_x1(A, t[2]) + c) * lda >> :
                r \in 0..(pdge2desc_y2(A, t[1]) - pdge2desc_y1(A, t[1]) - 1),
                c \in 0..(pdge2desc_x2(A, t[2]) - pdge2desc_x1(A, t[2]) - 1) } :
            t \in (0..(A.mt - 1)) \X (0..(A.nt - 1)) }

\* C10 (as claimed): once plasma_pdge2desc has run to completion on a
\* non-failed sequence, every element of the submatrix has been copied
\* exactly once, each to offset (y1 + r) + (x1 + c)*tile_mmain(m) of its
\* tile, and nothing else in tile storage has been written.
C10_TranslationAsClaimed ==
    (pAlda # 0 /\ tasks = {} /\ seqStatus = PlasmaSuccess) =>
        /\ nWrites = viewA.m * viewA.n
        /\ \A r \in 0..(viewA.m - 1), c \in 0..(viewA.n - 1) :
              Cardinality({ w \in tileStore :
                              w[2] = SrcIndex(viewA, pAlda, r, c) }) = 1
        /\ tileStore = ClaimedCopy(viewA, pAlda)

\* The part of C10 that the code does satisfy: every element is copied
\* exactly once.
CopiedExactlyOnce ==
    (pAlda # 0 /\ tasks = {} /\ seqStatus = PlasmaSuccess) =>
        /\ nWrites = viewA.m * viewA.n
        /\ \A r \in 0..(viewA.m - 1), c \in 0..(viewA.n - 1) :
              Cardinality({ w \in tileStore :
                              w[2] = SrcIndex(viewA, pAlda, r, c) }) = 1

\* -------------------------------------------------------------------------
\* Sequences, requests and task bodies
\* -------------------------------------------------------------------------
\* plasma_request_fail(sequence, request, status): both statuses take the
\* first error observed.
plasma_request_fail(q, err) ==
    /\ seqStatus' = IF seqStatus = PlasmaSuccess THEN err ELSE seqStatus
    /\ reqStatus' = [reqStatus EXCEPT
                        ![q] = IF reqStatus[q] = PlasmaSuccess
                               THEN err ELSE reqStatus[q]]
    /\ failLog' = Append(failLog, err)

\* #pragma omp task: one more task, its body not yet started.
NewTask(kind, q, id, args) ==
    [kind |-> kind, id |-> id, req |-> q, pc |-> "ready", args |-> args,
     tid |-> 0]

SubmitOne(kind, q, args) ==
    /\ nextId < MaxTasks
    /\ tasks' = tasks \cup {NewTask(kind, q, nextId, args)}
    /\ nextId' = nextId + 1
    /\ UNCHANGED <<entryVars, descVars, copyVars, seqStatus, reqStatus, failLog,
                   lastCall, outWrites>>

\* The body found sequence->status == PlasmaSuccess and goes on to its
\* kernel, or found a failed sequence and ends.
TestStatus(t) ==
    /\ t \in tasks
    /\ t.pc = "ready"
    /\ tasks' = IF seqStatus = PlasmaSuccess
                THEN (tasks \ {t}) \cup {[t EXCEPT !.pc = "kernel"]}
                ELSE tasks \ {t}
    /\ UNCHANGED <<entryVars, descVars, copyVars, seqStatus, reqStatus, nextId,
                   failLog, lastCall, outWrites>>

\* CORE_OMP_zpotrf(uplo, n, A, lda, sequence, request, iinfo)
CORE_OMP_zpotrf(n, q, iinfo) ==
    SubmitOne("zpotrf", q, <<n, n, iinfo>>)

CORE_OMP_zpotrf_test(t) ==
    /\ t.kind = "zpotrf"
    /\ TestStatus(t)

\* info = CORE_zpotrf(...) is what LAPACKE_zpotrf returns
CORE_OMP_zpotrf_kernel(t, info) ==
    /\ t \in tasks
    /\ t.kind = "zpotrf"
    /\ t.pc = "kernel"
    /\ tasks' = tasks \ {t}
    /\ outWrites' = IF info >= 0
                    THEN outWrites \cup {<<"zpotrf", FALSE>>}
                    ELSE outWrites
    /\ IF info # 0
       THEN plasma_request_fail(t.req, t.args[3] + info)
       ELSE UNCHANGED <<seqStatus, reqStatus, failLog>>
    /\ UNCHANGED <<entryVars, descVars, copyVars, nextId, lastCall>>

\* core_zgeqrt: the argument checks and the value returned
core_zgeqrt(m, n, ib, lda, ldt, lwork) ==
    IF m < 0 THEN 0 - 1
    ELSE IF n < 0 THEN 0 - 2
    ELSE IF (ib < 0) \/ ((ib = 0) /\ (m > 0) /\ (n > 0)) THEN 0 - 3
    ELSE IF (lda < imax(1, m)) /\ (m > 0) THEN 0 - 5
    ELSE IF (ldt < imax(1, ib)) /\ (ib > 0) THEN 0 - 7
    ELSE IF lwork < ib * n THEN 0 - 10
    ELSE PlasmaSuccess

\* core_zgelqt: the argument checks and the value returned
core_zgelqt(m, n, ib, lda, ldt, lwork) ==
    IF m < 0 THEN 0 - 1
    ELSE IF n < 0 THEN 0 - 2
    ELSE IF (ib < 0) \/ ((ib = 0) /\ ((m > 0) /\ (n > 0))) THEN 0 - 3
    ELSE IF (lda < imax(1, m)) /\ (m > 0) THEN 0 - 5
    ELSE IF (ldt < imax(1, ib)) /\ (ib > 0) THEN 0 - 7
    ELSE IF lwork < ib * m THEN 0 - 10
    ELSE PlasmaSuccess

\* int tid = omp_get_thread_num(): a thread runs one task body at a time,
\* so the body of a panel task runs on a thread that runs no other one.
omp_get_thread_num ==
    { w \in 1..NWorkers :
        \A u \in tasks : ~(u.pc = "kernel" /\ u.tid = w) }

\* The body of a panel task found sequence->status == PlasmaSuccess and goes
\* on, on thread tid, to split its workspace and call its kernel; or it
\* found a failed sequence and ends.
PanelTestStatus(t) ==
    /\ t \in tasks
    /\ t.pc = "ready"
    /\ IF seqStatus = PlasmaSuccess
       THEN \E tid \in omp_get_thread_num :
               tasks' = (tasks \ {t})
                        \cup {[t EXCEPT !.pc = "kernel", !.tid = tid]}
       ELSE tasks' = tasks \ {t}
    /\ UNCHANGED <<entryVars, descVars, copyVars, seqStatus, reqStatus, nextId,
                   failLog, lastCall, outWrites>>

\* A plausible slip: every task is handed the first buffer of the workspace.
panel_space_first(tid) == 1

\* work.spaces[tid]: the buffer of the workspace a panel task on thread tid
\* is handed.
panel_space(tid) == tid

\* A plausible slip: the whole buffer is handed to the kernel as WORK.
panel_ltau_none(t) == 0

\* int ltau = n; (core_omp_zgeqrt)  int ltau = m; (core_omp_zgelqt)
panel_ltau(t) == IF t.kind = "zgeqrt" THEN t.args[2] ELSE t.args[1]

\* The first columns or rows i of the blocks of the panel: i = 0, ib, ...
panel_blocks(k, ib) == { i \in 0..k - 1 : ib > 0 /\ i % ib = 0 }

\* The elements of TAU and of WORK that core_zgeqrt(m, n, ib, ...) hands to
\* zgeqr2 (TAU[i..i+sb), sb elements of WORK) and to zlarfb ((n-i-sb)*sb
\* elements of WORK); none when it returns before its loop.
core_zgeqrt_tau(m, n, ib, lda, ldt, lwork) ==
    IF core_zgeqrt(m, n, ib, lda, ldt, lwork) # PlasmaSuccess
       \/ m = 0 \/ n = 0 \/ ib = 0
    THEN {}
    ELSE 0..imin(m, n) - 1

core_zgeqrt_work(m, n, ib, lda, ldt, lwork) ==
    IF core_zgeqrt(m, n, ib, lda, ldt, lwork) # PlasmaSuccess
       \/ m = 0 \/ n = 0 \/ ib = 0
    THEN {}
    ELSE UNION { LET sb == imin(ib, imin(m, n) - i)
                 IN  0..imax(sb, (n - i - sb) * sb) - 1 :
                 i \in panel_blocks(imin(m, n), ib) }

\* The same for core_zgelqt: zgelq2 and zlarfb with (m-i-sb)*sb elements.
core_zgelqt_tau(m, n, ib, lda, ldt, lwork) ==
    IF core_zgelqt(m, n, ib, lda, ldt, lwork) # PlasmaSuccess
       \/ m = 0 \/ n = 0 \/ ib = 0
    THEN {}
    ELSE 0..imin(m, n) - 1

core_zgelqt_work(m, n, ib, lda, ldt, lwork) ==
    IF core_zgelqt(m, n, ib, lda, ldt, lwork) # PlasmaSuccess
       \/ m = 0 \/ n = 0 \/ ib = 0
    THEN {}
    ELSE UNION { LET sb == imin(ib, imin(m, n) - i)
                 IN  0..imax(sb, (m - i - sb) * sb) - 1 :
                 i \in panel_blocks(imin(m, n), ib) }

\* The elements <<buffer, index>> of the workspace that the kernel of a
\* running panel task uses through TAU = spaces[tid], and through
\* W = spaces[tid] + ltau with lwork = work.lwork - ltau.
panel_tau(t) ==
    LET lwork == t.args[6] - panel_ltau(t)
        tau   == IF t.kind = "zgeqrt"
                 THEN core_zgeqrt_tau(t.args[1], t.args[2], t.args[3],
                                      t.args[4], t.args[5], lwork)
                 ELSE core_zgelqt_tau(t.args[1], t.args[2], t.args[3],
                                      t.args[4], t.args[5], lwork)
    IN  { <<panel_space(t.tid), x>> : x \in tau }

panel_work(t) ==
    LET lwork == t.args[6] - panel_ltau(t)
        work  == IF t.kind = "zgeqrt"
                 THEN core_zgeqrt_work(t.args[1], t.args[2], t.args[3],
                                       t.args[4], t.args[5], lwork)
                 ELSE core_zgelqt_work(t.args[1], t.args[2], t.args[3],
                                       t.args[4], t.args[5], lwork)
    IN  { <<panel_space(t.tid), panel_ltau(t) + x>> : x \in work }

\* core_omp_zgeqrt(m, n, ib, nb, A, lda, T, ldt, work, sequence, request);
\* wlwork is work.lwork
core_omp_zgeqrt(m, n, ib, lda, ldt, wlwork, q) ==
    SubmitOne("zgeqrt", q, <<m, n, ib, lda, ldt, wlwork>>)

core_omp_zgeqrt_test(t) ==
    /\ t.kind = "zgeqrt"
    /\ PanelTestStatus(t)

core_omp_zgeqrt_kernel(t) ==
    /\ t \in tasks
    /\ t.kind = "zgeqrt"
    /\ t.pc = "kernel"
    /\ LET ltau  == panel_ltau(t)
           lwork == t.args[6] - ltau
           info  == core_zgeqrt(t.args[1], t.args[2], t.args[3],
                                t.args[4], t.args[5], lwork)
       IN  /\ tasks' = tasks \ {t}
           /\ outWrites' = IF info = PlasmaSuccess
                           THEN outWrites \cup {<<"zgeqrt", FALSE>>}
                           ELSE outWrites
           /\ IF info # PlasmaSuccess
              THEN plasma_request_fail(t.req, PlasmaErrorIllegalValue)
              ELSE UNCHANGED <<seqStatus, reqStatus, failLog>>
    /\ UNCHANGED <<entryVars, descVars, copyVars, nextId, lastCall>>

\* core_omp_zgelqt(m, n, ib, nb, A, lda, T, ldt, work, sequence, request)
core_omp_zgelqt(m, n, ib, lda, ldt, wlwork, q) ==
    SubmitOne("zgelqt", q, <<m, n, ib, lda, ldt, wlwork>>)

core_omp_zgelqt_test(t) ==
    /\ t.kind = "zgelqt"
    /\ PanelTestStatus(t)

core_omp_zgelqt_kernel(t) ==
    /\ t \in tasks
    /\ t.kind = "zgelqt"
    /\ t.pc = "kernel"
    /\ LET ltau  == panel_ltau(t)
           lwork == t.args[6] - ltau
           info  == core_zgelqt(t.args[1], t.args[2], t.args[3],
                                t.args[4], t.args[5], lwork)
       IN  /\ tasks' = tasks \ {t}
           /\ outWrites' = IF info = PlasmaSuccess
                           THEN outWrites \cup {<<"zgelqt", FALSE>>}
                           ELSE outWrites
           /\ IF info # PlasmaSuccess
              THEN plasma_request_fail(t.req, PlasmaErrorIllegalValue)
              ELSE UNCHANGED <<seqStatus, reqStatus, failLog>>
    /\ UNCHANGED <<entryVars, descVars, copyVars, nextId, lastCall>>

\* A body that tests the status and, on Success, writes its out region in
\* the same step; it records no error.
TestAndWrite(t) ==
    /\ t \in tasks
    /\ t.pc = "ready"
    /\ tasks' = tasks \ {t}
    /\ outWrites' = IF seqStatus = PlasmaSuccess
                    THEN outWrites \cup {<<t.kind, FALSE>>}
                    ELSE outWrites
    /\ UNCHANGED <<entryVars, descVars, copyVars, seqStatus, reqStatus, nextId,
                   failLog, lastCall>>

\* core_omp_zsyssq(uplo, n, A, lda, scale, sumsq, sequence, request)
core_omp_zsyssq(uplo, n, q) ==
    SubmitOne("zsyssq", q, <<uplo, n, n>>)

core_omp_zsyssq_body(t) ==
    /\ t.kind = "zsyssq"
    /\ TestAndWrite(t)

\* core_omp_zsyssq_aux(m, n, scale, sumsq, value, sequence, request)
core_omp_zsyssq_aux(m, n, q) ==
    SubmitOne("zsyssq_aux", q, <<m, n>>)

core_omp_zsyssq_aux_body(t) ==
    /\ t.kind = "zsyssq_aux"
    /\ TestAndWrite(t)

\* core_omp_clag2z(m, n, As, ldas, A, lda, sequence, request)
core_omp_clag2z(m, n, q) ==
    SubmitOne("clag2z", q, <<m, n, m, m>>)

\* The body is the bare call core_zlag2c(m, n, As, ldas, A, lda, sequence,
\* request); the callee is handed the sequence, and either looks at it
\* (tests) and leaves A alone on failure, or converts into A regardless, as
\* core_clag2z does.
core_omp_clag2z_body(t, tests) ==
    /\ t \in tasks
    /\ t.kind = "clag2z"
    /\ tasks' = tasks \ {t}
    /\ outWrites' = IF tests /\ seqStatus # PlasmaSuccess
                    THEN outWrites
                    ELSE outWrites \cup
                            {<<"clag2z", seqStatus # PlasmaSuccess>>}
    /\ UNCHANGED <<entryVars, descVars, copyVars, seqStatus, reqStatus, nextId,
                   failLog, lastCall>>

\* -------------------------------------------------------------------------
\* Task-submitting routines
\* -------------------------------------------------------------------------
CallRecord(name, q, valid, n) ==
    [name |-> name, q |-> q, valid |-> valid,
     seqBefore |-> seqStatus,
     reqBefore |-> reqStatus[q], reqAfter |-> reqStatus'[q],
     submitted |-> n]

\* plasma_request_fail(sequence, request, err); return;
FailAndReturn(name, q, valid, err) ==
    /\ master.routine # "none" \/ Len(failLog) < MaxFails
    /\ plasma_request_fail(q, err)
    /\ lastCall' = CallRecord(name, q, valid, 0)
    /\ UNCHANGED <<tasks, nextId>>

\* return; with nothing submitted and nothing recorded
QuickReturn(name, q) ==
    /\ UNCHANGED <<tasks, nextId, seqStatus, reqStatus, failLog>>
    /\ lastCall' = CallRecord(name, q, TRUE, 0)

\* One task of the given kind for every call of the list, in order; treq is
\* the request handed to the tasks (0: none).  The first call on a sequence
\* and an entry point submit their whole graph; further free-standing calls
\* are followed up to MaxTasks tasks.
SubmitAll(name, kind, q, treq, calls) ==
    /\ \/ master.routine # "none"
       \/ nextId = 0
       \/ nextId + Len(calls) <= MaxTasks
    /\ tasks' = tasks \cup
                { NewTask(kind, treq, nextId + k - 1, calls[k]) :
                    k \in 1..Len(calls) }
    /\ nextId' = nextId + Len(calls)
    /\ UNCHANGED <<seqStatus, reqStatus, failLog>>
    /\ lastCall' = CallRecord(name, q, TRUE, Len(calls))

\* A plausible slip: the inner dimension is taken from A.n whatever transA.
inner_k_An(transA, A) == A.n

\* int inner_k = transA == PlasmaNoTrans ? A.n : A.m;
inner_k(transA, A) == IF transA = "PlasmaNoTrans" THEN A.n ELSE A.m

\* A plausible slip: every kernel of the k loop is handed the caller's beta.
zbeta_every(k, beta) == beta

\* plasma_complex64_t zbeta = k == 0 ? beta : 1.0;
zbeta(k, beta) == IF k = 0 THEN beta ELSE 1

\* The core_omp_zgemm calls plasma_pzgemm makes for tile C(m, n), in order:
\* <<transA, transB, m, n, k, alpha, A, lda, B, ldb, beta, C, ldc>>.
pzgemm_tile(transA, transB, alpha, beta, A, B, C, m, n) ==
    LET mvcm    == plasma_tile_mview(C, m)
        ldcm    == plasma_tile_mmain(C, m)
        nvcn    == plasma_tile_nview(C, n)
    IN  IF alpha = 0 \/ inner_k(transA, A) = 0
        THEN << << transA, transB, mvcm, nvcn, 0,
                   alpha, plasma_tile_addr(A, 0, 0),
                          imax(1, plasma_tile_mmain(A, 0)),
                          plasma_tile_addr(B, 0, 0),
                          imax(1, plasma_tile_mmain(B, 0)),
                   beta,  plasma_tile_addr(C, m, n), ldcm >> >>
        ELSE IF transA = "PlasmaNoTrans"
        THEN IF transB = "PlasmaNoTrans"
             THEN [ k1 \in 1..A.nt |->
                      << transA, transB,
                         mvcm, nvcn, plasma_tile_nview(A, k1 - 1),
                         alpha, plasma_tile_addr(A, m, k1 - 1),
                                plasma_tile_mmain(A, m),
                                plasma_tile_addr(B, k1 - 1, n),
                                plasma_tile_mmain(B, k1 - 1),
                         zbeta(k1 - 1, beta), plasma_tile_addr(C, m, n), ldcm >> ]
             ELSE [ k1 \in 1..A.nt |->
                      << transA, transB,
                         mvcm, nvcn, plasma_tile_nview(A, k1 - 1),
                         alpha, plasma_tile_addr(A, m, k1 - 1),
                                plasma_tile_mmain(A, m),
                                plasma_tile_addr(B, n, k1 - 1),
                                plasma_tile_mmain(B, n),
                         zbeta(k1 - 1, beta), plasma_tile_addr(C, m, n), ldcm >> ]
        ELSE IF transB = "PlasmaNoTrans"
             THEN [ k1 \in 1..A.mt |->
                      << transA, transB,
                         mvcm, nvcn, plasma_tile_mview(A, k1 - 1),
                         alpha, plasma_tile_addr(A, k1 - 1, m),
                                plasma_tile_mmain(A, k1 - 1),
                                plasma_tile_addr(B, k1 - 1, n),
                                plasma_tile_mmain(B, k1 - 1),
                         zbeta(k1 - 1, beta), plasma_tile_addr(C, m, n), ldcm >> ]
             ELSE [ k1 \in 1..A.mt |->
                      << transA, transB,
                         mvcm, nvcn, plasma_tile_mview(A, k1 - 1),
                         alpha, plasma_tile_addr(A, k1 - 1, m),
                                plasma_tile_mmain(A, k1 - 1),
                                plasma_tile_addr(B, n, k1 - 1),
                                plasma_tile_mmain(B, n),
                         zbeta(k1 - 1, beta), plasma_tile_addr(C, m, n), ldcm >> ]

\* The calls for tiles t, t+1, ... of C, tiles numbered m*C.nt + n.
RECURSIVE pzgemm_calls(_, _, _, _, _, _, _, _)
pzgemm_calls(transA, transB, alpha, beta, A, B, C, t) ==
    IF t >= C.mt * C.nt
    THEN << >>
    ELSE pzgemm_tile(transA, transB, alpha, beta, A, B, C,
                     t \div C.nt, t % C.nt)
         \o pzgemm_calls(transA, transB, alpha, beta, A, B, C, t + 1)

\* A plausible slip: a failed sequence is left without recording the flush.
plasma_pzgemm_noflush(transA, transB, alpha, A, B, beta, C, q) ==
    /\ IF seqStatus # PlasmaSuccess
       THEN QuickReturn("plasma_pzgemm", q)
       ELSE SubmitAll("plasma_pzgemm", "zgemm", q, 0,
                      pzgemm_calls(transA, transB, alpha, beta, A, B, C, 0))
    /\ UNCHANGED <<entryVars, descVars, copyVars, outWrites>>

\* A plausible slip: the tiles of B are selected as for the other transB.
plasma_pzgemm_swapB(transA, transB, alpha, A, B, beta, C, q) ==
    /\ IF seqStatus # PlasmaSuccess
       THEN FailAndReturn("plasma_pzgemm", q, TRUE, PlasmaErrorSequence)
       ELSE SubmitAll("plasma_pzgemm", "zgemm", q, 0,
                      pzgemm_calls(transA,
                                   IF transB = "PlasmaNoTrans"
                                   THEN "PlasmaConjTrans" ELSE "PlasmaNoTrans",
                                   alpha, beta, A, B, C, 0))
    /\ UNCHANGED <<entryVars, descVars, copyVars, outWrites>>

\* A plausible slip: the loops run downwards, so that the tasks of a tile
\* are submitted in decreasing k.
plasma_pzgemm_downwards(transA, transB, alpha, A, B, beta, C, q) ==
    /\ IF seqStatus # PlasmaSuccess
       THEN FailAndReturn("plasma_pzgemm", q, TRUE, PlasmaErrorSequence)
       ELSE LET calls == pzgemm_calls(transA, transB, alpha, beta, A, B, C, 0)
            IN  SubmitAll("plasma_pzgemm", "zgemm", q, 0,
                          [ i \in 1..Len(calls) |->
                              calls[Len(calls) + 1 - i] ])
    /\ UNCHANGED <<entryVars, descVars, copyVars, outWrites>>

\* plasma_pzgemm(transA, transB, alpha, A, B, beta, C, sequence, request)
plasma_pzgemm(transA, transB, alpha, A, B, beta, C, q) ==
    /\ IF seqStatus # PlasmaSuccess
       THEN FailAndReturn("plasma_pzgemm", q, TRUE, PlasmaErrorSequence)
       ELSE SubmitAll("plasma_pzgemm", "zgemm", q, 0,
                      pzgemm_calls(transA, transB, alpha, beta, A, B, C, 0))
    /\ UNCHANGED <<entryVars, descVars, copyVars, outWrites>>

\* Task body of core_omp_zgemm: it is handed neither the sequence nor the
\* request, and updates C; tasks on the same C tile run in submission order.
core_omp_zgemm_body(t) ==
    /\ t \in tasks
    /\ t.kind = "zgemm"
    /\ \A u \in tasks :
          (u.kind = "zgemm" /\ u.args[12] = t.args[12]) => u.id >= t.id
    /\ tasks' = tasks \ {t}
    /\ outWrites' = outWrites \cup {<<"zgemm", seqStatus # PlasmaSuccess>>}
    /\ UNCHANGED <<entryVars, descVars, copyVars, seqStatus, reqStatus, nextId,
                   failLog, lastCall>>

\* m_start rounded up instead of truncated
band_m_start_ceil(uplo, A, n) ==
    IF uplo = "PlasmaGeneral"
    THEN CeilDiv(imax(0, n * A.nb - A.ku - A.kl), A.nb)
    ELSE IF uplo = "PlasmaUpper"
    THEN CeilDiv(imax(0, n * A.nb - A.ku), A.nb)
    ELSE CeilDiv(imax(0, n * A.nb), A.nb)

\* Band window of tile column n
band_m_start(uplo, A, n) ==
    IF uplo = "PlasmaGeneral"
    THEN CDiv(imax(0, n * A.nb - A.ku - A.kl), A.nb)
    ELSE IF uplo = "PlasmaUpper"
    THEN CDiv(imax(0, n * A.nb - A.ku), A.nb)
    ELSE CDiv(imax(0, n * A.nb), A.nb)

band_m_end(uplo, A, n) ==
    IF uplo = "PlasmaGeneral"
    THEN CDiv(imin(A.m - 1, (n + 1) * A.nb + A.kl - 1), A.nb)
    ELSE IF uplo = "PlasmaUpper"
    THEN CDiv(imin(A.m - 1, (n + 1) * A.nb - 1), A.nb)
    ELSE CDiv(imin(A.m - 1, (n + 1) * A.nb + A.kl - 1), A.nb)

\* The copy call for tile (m, n): <<uplo, m, n, mb, nb, A.mb, kl, ku,
\* index of bandA(m, n) in pA, lda - 1, tileA(m, n), BLKLDD_BAND>>.
band_call(uplo, lda, A, m, n) ==
    << uplo, m, n,
       imin(A.mb, A.m - m * A.mb), imin(A.nb, A.n - n * A.nb),
       A.mb, A.kl, A.ku,
       lda * (A.nb * n) + (IF uplo = "PlasmaUpper" THEN A.ku ELSE 0)
           + A.mb * (m - n),
       lda - 1,
       plasma_tile_addr(A, m, n), BLKLDD_BAND(uplo, A, m, n) >>

RECURSIVE band_col_calls(_, _, _, _, _)
band_col_calls(uplo, lda, A, n, m) ==
    IF m > band_m_end(uplo, A, n)
    THEN << >>
    ELSE << band_call(uplo, lda, A, m, n) >>
         \o band_col_calls(uplo, lda, A, n, m + 1)

RECURSIVE band_calls(_, _, _, _)
band_calls(uplo, lda, A, n) ==
    IF n >= A.nt
    THEN << >>
    ELSE band_col_calls(uplo, lda, A, n, band_m_start(uplo, A, n))
         \o band_calls(uplo, lda, A, n + 1)

\* plasma_pzoocm2ccrb_band(uplo, pA, lda, A, sequence, request)
plasma_pzoocm2ccrb_band(uplo, lda, A, q) ==
    /\ IF seqStatus # PlasmaSuccess
       THEN FailAndReturn("plasma_pzoocm2ccrb_band", q, TRUE,
                          PlasmaErrorSequence)
       ELSE SubmitAll("plasma_pzoocm2ccrb_band", "zlacpy_lapack2tile_band",
                      q, 0, band_calls(uplo, lda, A, 0))
    /\ UNCHANGED <<entryVars, descVars, copyVars, outWrites>>

\* Task body of core_omp_zlacpy_lapack2tile_band: it is handed neither the
\* sequence nor the request, and fills its tile.
core_omp_zlacpy_lapack2tile_band_body(t) ==
    /\ t \in tasks
    /\ t.kind = "zlacpy_lapack2tile_band"
    /\ tasks' = tasks \ {t}
    /\ outWrites' = outWrites \cup
                       {<<"zlacpy_lapack2tile_band",
                          seqStatus # PlasmaSuccess>>}
    /\ UNCHANGED <<entryVars, descVars, copyVars, seqStatus, reqStatus, nextId,
                   failLog, lastCall>>

\* plasma_pzooccrb2cm_band(uplo, A, pA, lda, sequence, request): the inverse
\* translation over the same band window.
plasma_pzooccrb2cm_band(name, uplo, lda, A, q) ==
    IF seqStatus # PlasmaSuccess
    THEN FailAndReturn(name, q, TRUE, PlasmaErrorSequence)
    ELSE SubmitAll(name, "zlacpy_tile2lapack_band", q, q,
                   band_calls(uplo, lda, A, 0))

core_omp_zlacpy_tile2lapack_band_body(t) ==
    /\ t.kind = "zlacpy_tile2lapack_band"
    /\ TestAndWrite(t)

\* PLASMA_zccrb2cm_band_Async(uplo, A, Af77, lda, sequence, request);
\* initialized: plasma_context_self() != NULL; descOk: plasma_desc_band_check
\* accepts A; Af77null: Af77 == NULL
PLASMA_zccrb2cm_band_Async(uplo, A, initialized, descOk, Af77null, lda, q) ==
    /\ IF ~initialized \/ ~descOk \/ Af77null
       THEN FailAndReturn("PLASMA_zccrb2cm_band_Async", q, FALSE,
                          PlasmaErrorIllegalValue)
       ELSE IF seqStatus # PlasmaSuccess
       THEN FailAndReturn("PLASMA_zccrb2cm_band_Async", q, TRUE,
                          PlasmaErrorSequence)
       ELSE IF A.m = 0 \/ A.n = 0
       THEN QuickReturn("PLASMA_zccrb2cm_band_Async", q)
       ELSE plasma_pzooccrb2cm_band("PLASMA_zccrb2cm_band_Async",
                                    uplo, lda, A, q)
    /\ UNCHANGED <<entryVars, descVars, copyVars, outWrites>>

\* plasma_pztrmm(side, uplo, transA, diag, alpha, A, B, sequence, request):
\* for every tile B(m, n) the triangular multiply by the diagonal tile of A,
\* then one update per remaining tile of the triangle:
\* <<op, side, uplo, transA, diag, alpha, m, n, k>>.
pztrmm_tile(side, uplo, transA, diag, alpha, A, B, m, n) ==
    LET d     == IF side = "PlasmaLeft" THEN m ELSE n
        last  == IF side = "PlasmaLeft" THEN B.mt - 1 ELSE B.nt - 1
        after == (uplo = "PlasmaUpper") = (transA = "PlasmaNoTrans")
        cnt   == IF after THEN last - d ELSE d
    IN  << << "trmm", side, uplo, transA, diag, alpha, m, n, d >> >>
        \o [ x \in 1..cnt |->
               << "gemm", side, uplo, transA, diag, alpha, m, n,
                  IF after THEN d + x ELSE x - 1 >> ]

RECURSIVE pztrmm_calls(_, _, _, _, _, _, _, _)
pztrmm_calls(side, uplo, transA, diag, alpha, A, B, t) ==
    IF t >= B.mt * B.nt
    THEN << >>
    ELSE pztrmm_tile(side, uplo, transA, diag, alpha, A, B,
                     t \div B.nt, t % B.nt)
         \o pztrmm_calls(side, uplo, transA, diag, alpha, A, B, t + 1)

plasma_pztrmm(name, side, uplo, transA, diag, alpha, A, B, q) ==
    IF seqStatus # PlasmaSuccess
    THEN FailAndReturn(name, q, TRUE, PlasmaErrorSequence)
    ELSE SubmitAll(name, "ztrmm", q, q,
                   pztrmm_calls(side, uplo, transA, diag, alpha, A, B, 0))

\* The tile a task declares as its out or inout dependence, for the tasks
\* whose order the runtime derives from it.
OutTile(t) ==
    IF t.kind = "ztrmm" THEN << "B", t.args[7], t.args[8] >>
    ELSE IF t.kind \in {"cm2ccrb", "ccrb2cm", "zgeqrs", "zsyr2k"}
    THEN << t.args[2], t.args[3], t.args[4] >>
    ELSE << t.kind, t.id, 0 >>

\* depend(inout: tile): the task starts after every task submitted before
\* it on the same tile.
DependsDone(t) ==
    \A u \in tasks : OutTile(u) = OutTile(t) => u.id >= t.id

\* The body of an algorithm kernel working on the tile it declares inout:
\* it tests the sequence status and, on Success, updates that tile.
TestAndCompute(t) ==
    /\ t \in tasks
    /\ t.pc = "ready"
    /\ tasks' = tasks \ {t}
    /\ outWrites' = IF seqStatus = PlasmaSuccess
                    THEN outWrites \cup {<<t.kind, FALSE>>}
                    ELSE outWrites
    /\ mem' = IF seqStatus = PlasmaSuccess
              THEN [mem EXCEPT !.touched = @ \cup {OutTile(t)}]
              ELSE mem
    /\ UNCHANGED <<entryVars, descA, viewA, probe, gemm, laset, ssq, loop,
                   copyVars,
                   seqStatus, reqStatus, nextId, failLog, lastCall>>

core_omp_ztrmm_body(t) ==
    /\ t.kind = "ztrmm"
    /\ DependsDone(t)
    /\ TestAndCompute(t)

\* PLASMA_ztrmm_Tile_Async(side, uplo, transA, diag, alpha, A, B, sequence,
\* request); initialized: plasma_context_self() != NULL; descAok, descBok:
\* plasma_desc_check accepts A, B.  The caller's own state is left to the
\* caller.
PLASMA_ztrmm_Tile_Async(side, uplo, transA, diag, alpha, A, B, initialized, descAok, descBok, q) ==
    /\ IF ~initialized
       THEN FailAndReturn("PLASMA_ztrmm_Tile_Async", q, FALSE,
                          PlasmaErrorIllegalValue)
       ELSE IF seqStatus # PlasmaSuccess
       THEN FailAndReturn("PLASMA_ztrmm_Tile_Async", q, TRUE,
                          PlasmaErrorSequence)
       ELSE IF \/ ~descAok
               \/ ~descBok
               \/ A.nb # A.mb
               \/ (side # "PlasmaLeft" /\ side # "PlasmaRight")
               \/ (uplo # "PlasmaUpper" /\ uplo # "PlasmaLower")
               \/ (transA # "PlasmaConjTrans" /\ transA # "PlasmaNoTrans"
                                              /\ transA # "PlasmaTrans")
               \/ (diag # "PlasmaUnit" /\ diag # "PlasmaNonUnit")
       THEN FailAndReturn("PLASMA_ztrmm_Tile_Async", q, TRUE,
                          PlasmaErrorIllegalValue)
       ELSE IF A.m = 0 \/ A.n = 0 \/ alpha = 0 \/ B.m = 0 \/ B.n = 0
       THEN QuickReturn("PLASMA_ztrmm_Tile_Async", q)
       ELSE plasma_pztrmm("PLASMA_ztrmm_Tile_Async", side, uplo, transA,
                          diag, alpha, A, B, q)
    /\ UNCHANGED <<descVars, copyVars, outWrites>>

\* -------------------------------------------------------------------------
\* Spec: one sequence, its requests, and the routines and tasks working
\* on it over a one-tile matrix
\* -------------------------------------------------------------------------
Sides  == {"PlasmaLeft", "PlasmaRight", "illegal"}
Transs == {"PlasmaNoTrans", "PlasmaConjTrans"}

\* The general band descriptor of an nb-by-nb matrix (one tile) with
\* kl = ku = 1.
BandDesc(nb) ==
    plasma_desc_general_band_init(
        "PlasmaGeneral", nb, nb,
        (CeilDiv(2, nb) + CeilDiv(1, nb) + 1) * nb, nb, 0, 0, nb, nb, 1, 1)

Init ==
    /\ \E nb \in 1..MaxNb :
          descA = plasma_desc_general_init(nb, nb, nb, nb, 0, 0, nb, nb,
                                           <<"A21", "A12", "A22">>)
    /\ viewA = descA
    /\ probe = NoProbe
    /\ IdleSeq
    /\ IdleEntry
    /\ IdleGemm
    /\ IdleLaset
    /\ IdleMem
    /\ IdleSsq
    /\ IdleLoop
    /\ IdleCopy

Next ==
    \/ \E q \in 1..NReq, iinfo \in {0, MaxInfo} :
          CORE_OMP_zpotrf(viewA.nb, q, iinfo)
    \/ \E q \in 1..NReq, extra \in {0, viewA.nb} :
          core_omp_zgeqrt(viewA.mb, viewA.nb, 1, viewA.mb, 1,
                          viewA.nb + extra, q)
    \/ \E q \in 1..NReq, extra \in {0, viewA.mb} :
          core_omp_zgelqt(viewA.mb, viewA.nb, 1, viewA.mb, 1,
                          viewA.mb + extra, q)
    \/ core_omp_zsyssq("PlasmaUpper", viewA.nb, 1)
    \/ core_omp_zsyssq_aux(viewA.mt, viewA.nt, 1)
    \/ core_omp_clag2z(viewA.mb, viewA.nb, 1)
    \/ \E q \in 1..NReq, transA \in Transs, alpha \in 0..1 :
          plasma_pzgemm(transA, "PlasmaNoTrans", alpha, viewA, viewA, 2,
                        viewA, q)
    \/ \E t \in tasks : CORE_OMP_zpotrf_test(t)
    \/ \E t \in tasks, info \in (0 - MaxInfo)..MaxInfo :
          CORE_OMP_zpotrf_kernel(t, info)
    \/ \E t \in tasks : core_omp_zgeqrt_test(t)
    \/ \E t \in tasks : core_omp_zgeqrt_kernel(t)
    \/ \E t \in tasks : core_omp_zgelqt_test(t)
    \/ \E t \in tasks : core_omp_zgelqt_kernel(t)
    \/ \E t \in tasks : core_omp_zsyssq_body(t)
    \/ \E t \in tasks : core_omp_zsyssq_aux_body(t)
    \/ \E t \in tasks, tests \in BOOLEAN : core_omp_clag2z_body(t, tests)
    \/ \E t \in tasks : core_omp_zgemm_body(t)


Spec == Init /\ [][Next]_vars

\* -------------------------------------------------------------------------
\* SpecPanel: the panel tasks core_omp_zgeqrt and core_omp_zgelqt alone
\* -------------------------------------------------------------------------
NextPanel ==
    \/ \E q \in 1..NReq, ib \in 1..viewA.nb, extra \in 0..viewA.nb :
          core_omp_zgeqrt(viewA.mb, viewA.nb, ib, viewA.mb, ib,
                          ib * viewA.nb + extra, q)
    \/ \E q \in 1..NReq, ib \in 1..viewA.mb, extra \in 0..viewA.mb :
          core_omp_zgelqt(viewA.mb, viewA.nb, ib, viewA.mb, ib,
                          ib * viewA.mb + extra, q)
    \/ \E t \in tasks : core_omp_zgeqrt_test(t)
    \/ \E t \in tasks : core_omp_zgeqrt_kernel(t)
    \/ \E t \in tasks : core_omp_zgelqt_test(t)
    \/ \E t \in tasks : core_omp_zgelqt_kernel(t)

SpecPanel == Init /\ [][NextPanel]_vars

\* -------------------------------------------------------------------------
\* SpecSubmit: the task-submitting routines called on a sequence that a
\* Cholesky tile task may have failed
\* -------------------------------------------------------------------------
NextSubmit ==
    \/ CORE_OMP_zpotrf(viewA.nb, 1, 0)
    \/ \E q \in 1..NReq :
          plasma_pzgemm("PlasmaNoTrans", "PlasmaNoTrans", 1, viewA, viewA, 2,
                        viewA, q)
    \/ \E q \in 1..NReq : plasma_pdge2desc(viewA.lm, q)
    \/ \E q \in 1..NReq :
          plasma_pzoocm2ccrb_band("PlasmaGeneral", 3, BandDesc(viewA.nb), q)
    \/ \E q \in 1..NReq, bad \in 0..3 :
          PLASMA_zccrb2cm_band_Async("PlasmaGeneral", BandDesc(viewA.nb),
                                     bad # 1, bad # 2, bad = 3, 3, q)
    \/ \E q \in 1..NReq, side \in Sides, alpha \in 0..1,
          initialized \in BOOLEAN :
          /\ PLASMA_ztrmm_Tile_Async(side, "PlasmaUpper", "PlasmaNoTrans",
                                     "PlasmaNonUnit", alpha, viewA, viewA,
                                     initialized, TRUE, TRUE, q)
          /\ UNCHANGED entryVars
    \/ \E t \in tasks : CORE_OMP_zpotrf_test(t)
    \/ \E t \in tasks, info \in 0..1 : CORE_OMP_zpotrf_kernel(t, info)
    \/ \E t \in tasks : core_omp_zgemm_body(t)
    \/ \E t \in tasks : core_omp_dlacpy(t)
    \/ \E t \in tasks : core_omp_zlacpy_lapack2tile_band_body(t)
    \/ \E t \in tasks : core_omp_zlacpy_tile2lapack_band_body(t)
    \/ \E t \in tasks : core_omp_ztrmm_body(t)

SpecSubmit == Init /\ [][NextSubmit]_vars

\* -------------------------------------------------------------------------
\* SpecBand: plasma_pzoocm2ccrb_band on any band descriptor of square tiles
\* -------------------------------------------------------------------------
BandUplos == {"PlasmaGeneral", "PlasmaUpper", "PlasmaLower"}

\* Rows of the band storage in whole tiles: one tile row for the diagonal,
\* the tile rows above it (with the fill-in reserve for General) and below.
BandLm(uplo, nb, kl, ku) ==
    IF uplo = "PlasmaGeneral"
    THEN nb * (1 + CeilDiv(ku + kl, nb) + CeilDiv(kl, nb))
    ELSE IF uplo = "PlasmaUpper"
    THEN nb * (1 + CeilDiv(ku, nb))
    ELSE nb * (1 + CeilDiv(kl, nb))

InitBand ==
    /\ \E uplo \in BandUplos, nb \in 1..MaxNb, m \in 1..MaxLm,
          n \in 1..MaxLn, kl \in 0..MaxBand, ku \in 0..MaxBand :
          descA = plasma_desc_general_band_init(
                      uplo, nb, nb, BandLm(uplo, nb, kl, ku), n,
                      0, 0, m, n, kl, ku)
    /\ viewA = descA
    /\ probe = NoProbe
    /\ IdleSeq
    /\ IdleEntry
    /\ IdleGemm
    /\ IdleLaset
    /\ IdleMem
    /\ IdleSsq
    /\ IdleLoop
    /\ IdleCopy

NextBand ==
    \/ /\ lastCall.name = "none"
       /\ plasma_pzoocm2ccrb_band(viewA.uplo, viewA.lm, viewA, 1)
    \/ \E t \in tasks : core_omp_zlacpy_lapack2tile_band_body(t)

SpecBand == InitBand /\ [][NextBand]_vars

(***************************************************************************)
(* plasma_pzgemm on three matrices with contents.  op(A) is M by K, op(B)  *)
(* is K by N and C is the M by N submatrix at row origin ci of a matrix    *)
(* with ci + M rows.  Element (r, c) of the three stored matrices starts   *)
(* as Aval, Bval and C0val.                                                *)
(***************************************************************************)
Aval(r, c)  == 1 + r + 3 * c
Bval(r, c)  == 2 + 2 * r - c
C0val(r, c) == 1 + 2 * r + 5 * c

\* The tile layout of a whole lm by ln matrix with the given elements.
RECURSIVE SumFn(_, _)
SumFn(f, k) == IF k = 0 THEN 0 ELSE f[k - 1] + SumFn(f, k - 1)

StoreOf(P, mat) ==
    [ x \in 1..(P.lm * P.ln) |->
        LET rc == CHOOSE rc \in (0..P.lm - 1) \X (0..P.ln - 1) :
                     ElemAddr(P, rc[1], rc[2]) = x - 1
        IN  IF mat = "A" THEN Aval(rc[1], rc[2])
            ELSE IF mat = "B" THEN Bval(rc[1], rc[2])
            ELSE C0val(rc[1], rc[2]) ]

GemmDesc(nb, rows, cols) ==
    plasma_desc_general_init(nb, nb, imax(1, rows), imax(1, cols), 0, 0,
                             rows, cols, <<"A12", "A21", "A22">>)

Alphas == {0, 2}
Betas  == {3}

InitGemm ==
    /\ \E nb \in 2..MaxNb, M \in 1..MaxGemm, N \in 1..MaxGemm,
          K \in 0..MaxGemm, transA \in Transs, transB \in Transs,
          alpha \in Alphas, beta \in Betas, org \in {0, 1} :
          LET ci == org * nb
              A  == IF transA = "PlasmaNoTrans" THEN GemmDesc(nb, M, K)
                    ELSE GemmDesc(nb, K, M)
              B  == IF transB = "PlasmaNoTrans" THEN GemmDesc(nb, K, N)
                    ELSE GemmDesc(nb, N, K)
              P  == GemmDesc(nb, ci + M, N)
          IN  gemm = [transA |-> transA, transB |-> transB,
                      alpha |-> alpha, beta |-> beta,
                      A |-> A, B |-> B,
                      C |-> plasma_desc_view(P, ci, 0, M, N),
                      Amem  |-> StoreOf(A, "A"),
                      Bmem  |-> StoreOf(B, "B"),
                      C0mem |-> StoreOf(P, "C"),
                      Cmem  |-> StoreOf(P, "C")]
    /\ descA = gemm.C
    /\ viewA = gemm.C
    /\ probe = NoProbe
    /\ IdleLaset
    /\ IdleMem
    /\ IdleSsq
    /\ IdleLoop
    /\ IdleSeq
    /\ IdleEntry
    /\ IdleCopy

\* A plausible slip: no dependence is declared on the tile of C.
GemmDepends_none(u, t) == FALSE

\* depend(in:A) depend(in:B) depend(inout:C): A, B and C are three arrays,
\* so two zgemm tasks conflict exactly when they are handed the same tile
\* of C, and the later-submitted one waits.
GemmDepends(u, t) ==
    /\ u.kind = "zgemm"
    /\ u.id < t.id
    /\ u.args[12] = t.args[12]

\* CORE_zgemm as the exact update C := alpha * op(A) * op(B) + beta * C of
\* the m by n tile at offset c of Cmem, A and B read at offsets a and b.
core_zgemm(transA, transB, m, n, k, alpha, Amem, a, lda, Bmem, b, ldb, beta, Cmem, c, ldc) ==
    [ x \in DOMAIN Cmem |->
        LET off == x - 1 - c
            i   == IF ldc > 0 THEN off % ldc ELSE 0
            j   == IF ldc > 0 THEN off \div ldc ELSE 0
            opA(l) == IF transA = "PlasmaNoTrans"
                      THEN Amem[a + i + l * lda + 1]
                      ELSE Amem[a + l + i * lda + 1]
            opB(l) == IF transB = "PlasmaNoTrans"
                      THEN Bmem[b + l + j * ldb + 1]
                      ELSE Bmem[b + j + l * ldb + 1]
        IN  IF ldc > 0 /\ off >= 0 /\ i < m /\ j < n
            THEN alpha * SumFn([l \in 0..k - 1 |-> opA(l) * opB(l)], k)
                 + beta * Cmem[x]
            ELSE Cmem[x] ]

\* A zgemm task starts once every earlier task it depends on has finished.
core_omp_zgemm_start(t) ==
    /\ t \in tasks
    /\ t.kind = "zgemm"
    /\ t.pc = "ready"
    /\ \A u \in tasks : ~GemmDepends(u, t)
    /\ tasks' = (tasks \ {t}) \cup {[t EXCEPT !.pc = "running"]}
    /\ UNCHANGED <<entryVars, descVars, copyVars, seqStatus, reqStatus, nextId,
                   failLog, lastCall, outWrites>>

\* CORE_OMP_zgemm is handed neither sequence nor request: the task runs
\* CORE_zgemm on its arguments and ends.
core_omp_zgemm_finish(t) ==
    /\ t \in tasks
    /\ t.kind = "zgemm"
    /\ t.pc = "running"
    /\ tasks' = tasks \ {t}
    /\ gemm' = [gemm EXCEPT !.Cmem =
                  core_zgemm(t.args[1], t.args[2], t.args[3], t.args[4],
                             t.args[5], t.args[6],
                             gemm.Amem, t.args[7], t.args[8],
                             gemm.Bmem, t.args[9], t.args[10],
                             t.args[11],
                             gemm.Cmem, t.args[12], t.args[13])]
    /\ UNCHANGED <<entryVars, descA, viewA, probe, laset, mem, ssq, loop,
                   copyVars,
                   seqStatus, reqStatus, nextId, failLog, lastCall, outWrites>>

NextGemm ==
    \/ /\ lastCall.name = "none"
       /\ plasma_pzgemm(gemm.transA, gemm.transB, gemm.alpha, gemm.A, gemm.B,
                        gemm.beta, gemm.C, 1)
    \/ \E t \in tasks : core_omp_zgemm_start(t)
    \/ \E t \in tasks : core_omp_zgemm_finish(t)

SpecGemm == InitGemm /\ [][NextGemm]_vars

(***************************************************************************)
(* test_zlaset: plasma_zlaset on a column-major array of lda * n elements, *)
(* checked against LAPACKE_zlaset on a copy.  plasma_zlaset translates the *)
(* array to tiles, sets the tiles and translates back, one task per tile   *)
(* and phase.                                                              *)
(***************************************************************************)
LasetUplos == {"PlasmaUpper", "PlasmaLower", "PlasmaGeneral"}

\* int lda = imax(1, m + pad); A filled by LAPACKE_zlarnv, here element x
\* holds x; memcpy(Aref, A, ...); alpha and beta are two fixed scalars.
InitLaset ==
    /\ \E uplo \in LasetUplos, m \in 0..MaxGemm, n \in 0..MaxGemm,
          pad \in 0..1, nb \in 2..MaxNb :
          LET lda  == imax(1, m + pad)
              A    == [x \in 1..(lda * n) |-> x]
              desc == GemmDesc(nb, m, n)
          IN  laset = [uplo |-> uplo, m |-> m, n |-> n, lda |-> lda,
                       alpha |-> 0 - 1, beta |-> 0 - 2, desc |-> desc,
                       A |-> A, Aref |-> A,
                       tiles |-> [x \in 1..(desc.lm * desc.ln) |-> 0]]
    /\ descA = laset.desc
    /\ viewA = laset.desc
    /\ probe = NoProbe
    /\ IdleGemm
    /\ IdleMem
    /\ IdleSsq
    /\ IdleLoop
    /\ IdleSeq
    /\ IdleEntry
    /\ IdleCopy

\* The elements <<r, c>> of the matrix that lie in tile (i, j).
TileElems(A, i, j) ==
    { <<r, c>> \in (0..A.m - 1) \X (0..A.n - 1) :
        r \div A.mb = i /\ c \div A.nb = j }

\* One task <<phase, i, j, uplo, alpha, beta>> for every tile of the list.
LasetCalls(phase, tl, alpha, beta) ==
    [ x \in 1..Len(tl) |->
        << phase, tl[x][1], tl[x][2],
           IF tl[x][1] = tl[x][2] THEN tl[x][3] ELSE "PlasmaGeneral",
           alpha,
           IF tl[x][1] = tl[x][2] THEN beta ELSE alpha >> ]

\* The tiles <<i, j, uplo>> of A from tile number x on, tile rows outermost;
\* all of them, or those of the uplo region only.
RECURSIVE LasetTiles(_, _, _, _)
LasetTiles(A, uplo, region, x) ==
    IF x >= A.mt * A.nt THEN << >>
    ELSE LET i == x \div A.nt
             j == x % A.nt
         IN  (IF ~region \/ uplo = "PlasmaGeneral"
                 \/ (uplo = "PlasmaLower" /\ i >= j)
                 \/ (uplo = "PlasmaUpper" /\ i <= j)
              THEN << <<i, j, uplo>> >> ELSE << >>)
             \o LasetTiles(A, uplo, region, x + 1)

\* plasma_zlaset(uplo, m, n, alpha, beta, A, lda): translate to tiles, set
\* alpha and beta on the tiles of the uplo region (diagonal tiles with uplo
\* and beta, the others as general tiles filled with alpha), translate back.
plasma_zlaset ==
    /\ lastCall.name = "none"
    /\ SubmitAll("plasma_zlaset", "zlaset", 1, 1,
                 LasetCalls("in", LasetTiles(laset.desc, laset.uplo, FALSE, 0),
                            0, 0)
                 \o LasetCalls("set",
                               LasetTiles(laset.desc, laset.uplo, TRUE, 0),
                               laset.alpha, laset.beta)
                 \o LasetCalls("out",
                               LasetTiles(laset.desc, laset.uplo, FALSE, 0),
                               0, 0))
    /\ UNCHANGED <<entryVars, descVars, copyVars, outWrites>>

\* depend(out: A(m, n)) and the dependences of the two translations: a
\* task runs after every task submitted before it on the same tile.
LasetDepends(t) ==
    \A u \in tasks :
       (u.kind = "zlaset" /\ u.args[2] = t.args[2] /\ u.args[3] = t.args[3])
          => u.id >= t.id

\* core_zlaset(uplo, m, n, alpha, beta, A, lda) on tile (i, j): what element
\* (r, c) of the matrix holds afterwards, v being what it held.
core_zlaset(uplo, alpha, beta, A, i, j, r, c, v) ==
    LET lr == r - i * A.mb
        lc == c - j * A.nb
    IN  IF lr = lc THEN beta
        ELSE IF uplo = "PlasmaUpper" /\ lr > lc THEN v
        ELSE IF uplo = "PlasmaLower" /\ lr < lc THEN v
        ELSE alpha

\* The body of a task of plasma_zlaset: the copy of a tile from the user
\* array, the kernel on a tile, or the copy of a tile back.
plasma_zlaset_body(t) ==
    /\ t \in tasks
    /\ t.kind = "zlaset"
    /\ LasetDepends(t)
    /\ tasks' = tasks \ {t}
    /\ LET A     == laset.desc
           elems == TileElems(A, t.args[2], t.args[3])
           user(rc) == rc[1] + rc[2] * laset.lda + 1
           tile(rc) == ElemAddr(A, rc[1], rc[2]) + 1
       IN  laset' =
             IF seqStatus # PlasmaSuccess THEN laset
             ELSE IF t.args[1] = "in"
             THEN [laset EXCEPT !.tiles =
                     [x \in DOMAIN laset.tiles |->
                        IF \E rc \in elems : tile(rc) = x
                        THEN laset.A[user(CHOOSE rc \in elems : tile(rc) = x)]
                        ELSE laset.tiles[x]]]
             ELSE IF t.args[1] = "set"
             THEN [laset EXCEPT !.tiles =
                     [x \in DOMAIN laset.tiles |->
                        IF \E rc \in elems : tile(rc) = x
                        THEN LET rc == CHOOSE rc \in elems : tile(rc) = x
                             IN  core_zlaset(t.args[4], t.args[5], t.args[6],
                                             A, t.args[2], t.args[3],
                                             rc[1], rc[2], laset.tiles[x])
                        ELSE laset.tiles[x]]]
             ELSE [laset EXCEPT !.A =
                     [x \in DOMAIN laset.A |->
                        IF \E rc \in elems : user(rc) = x
                        THEN laset.tiles[tile(CHOOSE rc \in elems :
                                                 user(rc) = x)]
                        ELSE laset.A[x]]]
    /\ UNCHANGED <<entryVars, descA, viewA, probe, gemm, mem, ssq, loop,
                   copyVars,
                   seqStatus,
                   reqStatus, nextId, failLog, lastCall, outWrites>>

\* LAPACKE_zlaset(LAPACK_COL_MAJOR, uplo, m, n, alpha, beta, Aref, lda)
LAPACKE_zlaset(uplo, m, n, alpha, beta, Aref, lda) ==
    [ x \in DOMAIN Aref |->
        LET r == (x - 1) % lda
            c == (x - 1) \div lda
        IN  IF r >= m \/ c >= n THEN Aref[x]
            ELSE IF r = c THEN beta
            ELSE IF uplo = "PlasmaUpper" /\ r > c THEN Aref[x]
            ELSE IF uplo = "PlasmaLower" /\ r < c THEN Aref[x]
            ELSE alpha ]

\* A plausible slip: the reference is computed with alpha and beta swapped.
test_zlaset_reference_swapped ==
    LAPACKE_zlaset(laset.uplo, laset.m, laset.n, laset.beta, laset.alpha,
                   laset.Aref, laset.lda)

\* The reference of the test: LAPACKE_zlaset on the copy of the input.
test_zlaset_reference ==
    LAPACKE_zlaset(laset.uplo, laset.m, laset.n, laset.alpha, laset.beta,
                   laset.Aref, laset.lda)

\* cblas_zaxpy(lda*n, -1, Aref, 1, A, 1) and the Frobenius norm of the m by
\* n part of the difference, squared.
test_zlaset_error ==
    SumFn([ k \in 0..(laset.m * laset.n - 1) |->
              LET x == (k % laset.m) + (k \div laset.m) * laset.lda + 1
                  d == laset.A[x] - test_zlaset_reference[x]
              IN  d * d ],
          laset.m * laset.n)

\* param[PARAM_SUCCESS].i = error < tol, for exact values
test_zlaset_success == test_zlaset_error = 0

NextLaset ==
    \/ plasma_zlaset
    \/ \E t \in tasks : plasma_zlaset_body(t)

SpecLaset == InitLaset /\ [][NextLaset]_vars

\* -------------------------------------------------------------------------
\* Synchronous entry points: PLASMA_zgeqrs, PLASMA_zsyr2k, PLASMA_ztrmm
\* -------------------------------------------------------------------------
\* The calls of the master thread inside the parallel region, in program
\* order: the routine called, the matrix it is handed, and whether the call
\* is made only if (sequence->status == PLASMA_SUCCESS).
RegionCall(call, mat, guarded) ==
    [call |-> call, mat |-> mat, guarded |-> guarded]

PLASMA_zgeqrs_reordered ==
    << RegionCall("PLASMA_zcm2ccrb_Async", "A", FALSE),
       RegionCall("PLASMA_zcm2ccrb_Async", "B", FALSE),
       RegionCall("PLASMA_zccrb2cm_Async", "B", FALSE),
       RegionCall("plasma_omp_zgeqrs", "B", FALSE) >>

PLASMA_zgeqrs_region ==
    << RegionCall("PLASMA_zcm2ccrb_Async", "A", FALSE),
       RegionCall("PLASMA_zcm2ccrb_Async", "B", FALSE),
       RegionCall("plasma_omp_zgeqrs", "B", FALSE),
       RegionCall("PLASMA_zccrb2cm_Async", "B", FALSE) >>

PLASMA_zsyr2k_region ==
    << RegionCall("PLASMA_zcm2ccrb_Async", "A", FALSE),
       RegionCall("PLASMA_zcm2ccrb_Async", "B", FALSE),
       RegionCall("PLASMA_zcm2ccrb_Async", "C", FALSE),
       RegionCall("plasma_omp_zsyr2k", "C", FALSE),
       RegionCall("PLASMA_zccrb2cm_Async", "C", FALSE) >>

PLASMA_ztrmm_region ==
    << RegionCall("PLASMA_zcm2ccrb_Async", "A", FALSE),
       RegionCall("PLASMA_zcm2ccrb_Async", "B", TRUE),
       RegionCall("PLASMA_ztrmm_Tile_Async", "B", TRUE),
       RegionCall("PLASMA_zccrb2cm_Async", "A", TRUE),
       RegionCall("PLASMA_zccrb2cm_Async", "B", TRUE) >>

Region(routine) ==
    IF routine = "PLASMA_zgeqrs" THEN PLASMA_zgeqrs_region
    ELSE IF routine = "PLASMA_zsyr2k" THEN PLASMA_zsyr2k_region
    ELSE IF routine = "PLASMA_ztrmm" THEN PLASMA_ztrmm_region
    ELSE << >>

\* The resources an entry point creates before its parallel region, in the
\* order of their creation: the tile matrices (plasma_desc_general_create /
\* plasma_desc_mat_alloc), the workspace (plasma_workspace_alloc) and the
\* sequence (plasma_sequence_create).
Resources(routine) ==
    IF routine = "PLASMA_zgeqrs" THEN << "A", "B", "work", "sequence" >>
    ELSE IF routine = "PLASMA_zsyr2k" THEN << "A", "B", "C", "sequence" >>
    ELSE IF routine = "PLASMA_ztrmm" THEN << "A", "B", "sequence" >>
    ELSE << >>

\* What the error branch of the i-th creation releases before its
\* return retval.
FailureFrees(routine, i) ==
    IF routine = "PLASMA_zsyr2k" /\ i = 3 THEN << "A", "B" >>
    ELSE IF routine # "none" /\ i = 2 THEN << "A" >>
    ELSE << >>

\* What the entry point releases behind the parallel region, in order;
\* status is sequence->status after the join.
JoinFrees(routine, status) ==
    IF routine = "PLASMA_zgeqrs" THEN << "work", "A", "B", "sequence" >>
    ELSE IF routine = "PLASMA_zsyr2k" THEN << "A", "B", "C", "sequence" >>
    ELSE IF routine = "PLASMA_ztrmm"
    THEN IF status # PlasmaSuccess THEN << >>
         ELSE << "A", "B", "sequence" >>
    ELSE << >>

\* The entry point returns retval before its parallel region.
EarlyReturn(routine, retval, fault) ==
    [NoMaster EXCEPT !.routine = routine, !.done = TRUE, !.ret = retval,
                     !.fault = fault]

\* The oom-th creation of the entry point fails: the creations before it
\* succeeded, its error branch runs and the entry point returns.
AllocFailure(routine, oom) ==
    [EarlyReturn(routine, PlasmaErrorOutOfMemory, "allocation") EXCEPT
        !.created = SubSeq(Resources(routine), 1, oom - 1),
        !.freed = FailureFrees(routine, oom)]

\* The entry point has created its descriptors, workspace, sequence and
\* request and opens the parallel region.
EnterRegion(routine, descs, Tok, p) ==
    [NoMaster EXCEPT !.routine = routine, !.pc = 1, !.entered = TRUE,
                     !.descs = descs, !.Tok = Tok, !.p = p,
                     !.created = Resources(routine)]

\* plasma_desc_general_create / plasma_desc_init followed by
\* plasma_desc_mat_alloc: the descriptor of an lm-by-ln matrix in nb-by-nb
\* tiles covering m-by-n from the origin.
EntryDesc(nb, lm, ln, m, n) ==
    plasma_desc_general_init(nb, nb, lm, ln, 0, 0, m, n,
                             <<"A21", "A12", "A22">>)

\* PLASMA_zgeqrs: "Check input arguments"; the value returned, 0 when every
\* check passes.
PLASMA_zgeqrs_check(m, n, nrhs, lda, ldb) ==
    IF m < 0 THEN 0 - 1
    ELSE IF n < 0 \/ n > m THEN 0 - 2
    ELSE IF nrhs < 0 THEN 0 - 3
    ELSE IF lda < imax(1, m) THEN 0 - 5
    ELSE IF ldb < imax(1, imax(1, m)) THEN 0 - 8
    ELSE 0

\* PLASMA_zgeqrs(m, n, nrhs, pA, lda, T, pB, ldb) up to the parallel region.
\* Tok: plasma_desc_check accepts T; oom: the creation that fails, counted
\* from 1 (0: none fails).
PLASMA_zgeqrs(m, n, nrhs, lda, ldb, Tok, oom) ==
    /\ master.routine = "none"
    /\ LET illegal == PLASMA_zgeqrs_check(m, n, nrhs, lda, ldb)
           ret ==
             IF illegal # 0
             THEN EarlyReturn("PLASMA_zgeqrs", illegal, "argument")
             ELSE IF m = 0 \/ n = 0 \/ nrhs = 0
             THEN EarlyReturn("PLASMA_zgeqrs", PlasmaSuccess, "none")
             ELSE IF oom \in 1..Len(Resources("PLASMA_zgeqrs"))
             THEN AllocFailure("PLASMA_zgeqrs", oom)
             ELSE EnterRegion("PLASMA_zgeqrs",
                              [ NoDescs EXCEPT
                                  !["A"] = EntryDesc(viewA.nb, lda, n, m, n),
                                  !["B"] = EntryDesc(viewA.nb, ldb, nrhs,
                                                     m, nrhs) ],
                              Tok, NoParams)
       IN  master' = [ret EXCEPT !.args = <<m, n, nrhs, lda, ldb>>]
    /\ UNCHANGED <<descVars, seqVars, copyVars, subLog>>

\* PLASMA_zsyr2k(uplo, trans, n, k, alpha, A, lda, B, ldb, beta, C, ldc) up
\* to the parallel region.
PLASMA_zsyr2k(uplo, trans, n, k, alpha, lda, ldb, beta, ldc, oom) ==
    /\ master.routine = "none"
    /\ LET Am == IF trans = "PlasmaNoTrans" THEN n ELSE k
           An == IF trans = "PlasmaNoTrans" THEN k ELSE n
           Bm == Am
           Bn == An
       IN master' =
            IF uplo # "PlasmaUpper" /\ uplo # "PlasmaLower"
            THEN EarlyReturn("PLASMA_zsyr2k", 0 - 1, "argument")
            ELSE IF trans # "PlasmaNoTrans" /\ trans # "PlasmaTrans"
            THEN EarlyReturn("PLASMA_zsyr2k", 0 - 2, "argument")
            ELSE IF n < 0
            THEN EarlyReturn("PLASMA_zsyr2k", 0 - 3, "argument")
            ELSE IF k < 0
            THEN EarlyReturn("PLASMA_zsyr2k", 0 - 4, "argument")
            ELSE IF lda < imax(1, Am)
            THEN EarlyReturn("PLASMA_zsyr2k", 0 - 7, "argument")
            ELSE IF ldb < imax(1, Bm)
            THEN EarlyReturn("PLASMA_zsyr2k", 0 - 9, "argument")
            ELSE IF ldc < imax(1, n)
            THEN EarlyReturn("PLASMA_zsyr2k", 0 - 12, "argument")
            ELSE IF n = 0 \/ ((alpha = 0 \/ k = 0) /\ beta = 1)
            THEN EarlyReturn("PLASMA_zsyr2k", PlasmaSuccess, "none")
            ELSE IF oom \in 1..Len(Resources("PLASMA_zsyr2k"))
            THEN AllocFailure("PLASMA_zsyr2k", oom)
            ELSE EnterRegion("PLASMA_zsyr2k",
                             [ NoDescs EXCEPT
                                 !["A"] = EntryDesc(viewA.nb, Am, An, Am, An),
                                 !["B"] = EntryDesc(viewA.nb, Bm, Bn, Bm, Bn),
                                 !["C"] = EntryDesc(viewA.nb, n, n, n, n) ],
                             TRUE,
                             [ NoParams EXCEPT
                                 !.uplo = uplo, !.trans = trans,
                                 !.alpha = alpha, !.beta = beta ])
    /\ UNCHANGED <<descVars, seqVars, copyVars, subLog>>

\* PLASMA_ztrmm: "Check input arguments"; the value returned, 0 when every
\* check passes.
PLASMA_ztrmm_check(side, uplo, transA, diag, n, nrhs, lda, ldb) ==
    LET na == IF side = "PlasmaLeft" THEN n ELSE nrhs
    IN  IF side # "PlasmaLeft" /\ side # "PlasmaRight" THEN 0 - 1
        ELSE IF uplo # "PlasmaUpper" /\ uplo # "PlasmaLower" THEN 0 - 2
        ELSE IF transA # "PlasmaConjTrans" /\ transA # "PlasmaNoTrans"
                                           /\ transA # "PlasmaTrans"
        THEN 0 - 3
        ELSE IF diag # "PlasmaUnit" /\ diag # "PlasmaNonUnit" THEN 0 - 4
        ELSE IF n < 0 THEN 0 - 5
        ELSE IF nrhs < 0 THEN 0 - 6
        ELSE IF lda < imax(1, na) THEN 0 - 8
        ELSE IF ldb < imax(1, n) THEN 0 - 10
        ELSE 0

\* PLASMA_ztrmm(side, uplo, transA, diag, n, nrhs, alpha, A, lda, B, ldb) up
\* to the parallel region; A, B: "NULL" or "array"; oom: the creation that
\* fails, counted from 1 (0: none fails).
PLASMA_ztrmm(side, uplo, transA, diag, n, nrhs, alpha, A, lda, B, ldb, oom) ==
    /\ master.routine = "none"
    /\ LET na == IF side = "PlasmaLeft" THEN n ELSE nrhs
           illegal == PLASMA_ztrmm_check(side, uplo, transA, diag, n, nrhs,
                                         lda, ldb)
           ret ==
             IF illegal # 0
             THEN EarlyReturn("PLASMA_ztrmm", illegal, "argument")
             ELSE IF imin(n, nrhs) = 0
             THEN EarlyReturn("PLASMA_ztrmm", PlasmaSuccess, "none")
             ELSE IF oom \in 1..Len(Resources("PLASMA_ztrmm"))
             THEN AllocFailure("PLASMA_ztrmm", oom)
             ELSE EnterRegion("PLASMA_ztrmm",
                              [ NoDescs EXCEPT
                                  !["A"] = EntryDesc(viewA.nb, na, n, na, n),
                                  !["B"] = EntryDesc(viewA.nb, n, na, n, na) ],
                              TRUE,
                              [ NoParams EXCEPT
                                  !.side = side, !.uplo = uplo,
                                  !.trans = transA, !.diag = diag,
                                  !.alpha = alpha ])
       IN  master' = [ret EXCEPT
                        !.args = << side, uplo, transA, diag, n, nrhs,
                                    alpha, A, lda, B, ldb >>,
                        !.null = { mat \in {"A", "B"} :
                                     (IF mat = "A" THEN A ELSE B) = "NULL" }]
    /\ UNCHANGED <<descVars, seqVars, copyVars, subLog>>

\* The call the master thread is about to make.
AtCall(call) ==
    /\ master.entered
    /\ master.pc \in 1..Len(Region(master.routine))
    /\ Region(master.routine)[master.pc].call = call

CurCall == Region(master.routine)[master.pc]

\* if (sequence->status == PLASMA_SUCCESS) in front of the call is false.
Skipped == CurCall.guarded /\ seqStatus # PlasmaSuccess

SkipCall ==
    UNCHANGED <<tasks, nextId, seqStatus, reqStatus, failLog, lastCall>>

\* The master thread moves on to its next call; the tasks just submitted
\* are logged under their phase.
Advance(phase, fault) ==
    /\ master' = [master EXCEPT !.pc = @ + 1, !.fault = fault]
    /\ subLog' = subLog \o [k \in 1..(nextId' - nextId) |-> phase]

\* One call <<kernel, matrix, m, n>> for every tile of A, tile rows outermost
\* as in plasma_pdge2desc.
TileCopies(kernel, mat, A) ==
    [ x \in 1..(A.mt * A.nt) |->
        << kernel, mat, (x - 1) \div A.nt, (x - 1) % A.nt >> ]

\* PLASMA_zcm2ccrb_Async(pA, lda, A, sequence, request): one copy task per
\* tile, PlasmaErrorIllegalValue on a NULL user array, or
\* PlasmaErrorSequence on a failed sequence.
PLASMA_zcm2ccrb_Async ==
    /\ AtCall("PLASMA_zcm2ccrb_Async")
    /\ IF Skipped
       THEN SkipCall
       ELSE IF CurCall.mat \in master.null
       THEN FailAndReturn("PLASMA_zcm2ccrb_Async", 1, TRUE,
                          PlasmaErrorIllegalValue)
       ELSE IF seqStatus # PlasmaSuccess
       THEN FailAndReturn("PLASMA_zcm2ccrb_Async", 1, TRUE,
                          PlasmaErrorSequence)
       ELSE SubmitAll("PLASMA_zcm2ccrb_Async", "cm2ccrb", 1, 1,
                      TileCopies("lapack2tile", CurCall.mat,
                                 master.descs[CurCall.mat]))
    /\ Advance("in", master.fault)
    /\ UNCHANGED <<descVars, copyVars, outWrites>>

\* PLASMA_zccrb2cm_Async(A, pA, lda, sequence, request): the inverse
\* direction.
PLASMA_zccrb2cm_Async ==
    /\ AtCall("PLASMA_zccrb2cm_Async")
    /\ IF Skipped
       THEN SkipCall
       ELSE IF CurCall.mat \in master.null
       THEN FailAndReturn("PLASMA_zccrb2cm_Async", 1, TRUE,
                          PlasmaErrorIllegalValue)
       ELSE IF seqStatus # PlasmaSuccess
       THEN FailAndReturn("PLASMA_zccrb2cm_Async", 1, TRUE,
                          PlasmaErrorSequence)
       ELSE SubmitAll("PLASMA_zccrb2cm_Async", "ccrb2cm", 1, 1,
                      TileCopies("tile2lapack", CurCall.mat,
                                 master.descs[CurCall.mat]))
    /\ Advance("out", master.fault)
    /\ UNCHANGED <<descVars, copyVars, outWrites>>

\* plasma_pzunmqr(PlasmaLeft, Plasma_ConjTrans, A, B, T, ...): for every
\* panel k, UNMQR on the tiles B(k, n), then TSMQR on B(m, n) below them.
RECURSIVE pzunmqr_calls(_, _, _)
pzunmqr_calls(A, B, k) ==
    IF k >= imin(A.mt, A.nt)
    THEN << >>
    ELSE [ x \in 1..B.nt |-> << "unmqr", "B", k, x - 1 >> ]
         \o [ x \in 1..((B.mt - 1 - k) * B.nt) |->
                << "tsmqr", "B", k + 1 + ((x - 1) \div B.nt),
                   (x - 1) % B.nt >> ]
         \o pzunmqr_calls(A, B, k + 1)

\* plasma_pztrsm(PlasmaLeft, PlasmaUpper, PlasmaNoTrans, PlasmaNonUnit, ...)
\* for tile column n of B: tile rows in reverse order, TRSM on B(m, n), then
\* GEMM on every B(k, n) with k < m.
RECURSIVE pztrsm_column(_, _, _)
pztrsm_column(A, n, m) ==
    IF m < 0
    THEN << >>
    ELSE << << "trsm", "B", m, n >> >>
         \o [ k \in 1..m |-> << "gemm", "B", k - 1, n >> ]
         \o pztrsm_column(A, n, m - 1)

RECURSIVE pztrsm_calls(_, _, _)
pztrsm_calls(A, B, n) ==
    IF n >= B.nt
    THEN << >>
    ELSE pztrsm_column(A, n, A.mt - 1) \o pztrsm_calls(A, B, n + 1)

\* plasma_omp_zgeqrs(A, T, B, work, sequence, request)
plasma_omp_zgeqrs ==
    /\ AtCall("plasma_omp_zgeqrs")
    /\ LET A == master.descs["A"]
           B == master.descs["B"]
       IN IF ~master.Tok
          THEN /\ FailAndReturn("plasma_omp_zgeqrs", 1, TRUE,
                                PlasmaErrorIllegalValue)
               /\ Advance("alg", "descriptor")
          ELSE /\ IF A.m = 0 \/ A.n = 0 \/ B.n = 0
                  THEN QuickReturn("plasma_omp_zgeqrs", 1)
                  ELSE IF seqStatus # PlasmaSuccess
                  THEN FailAndReturn("plasma_omp_zgeqrs", 1, TRUE,
                                     PlasmaErrorSequence)
                  ELSE SubmitAll("plasma_omp_zgeqrs", "zgeqrs", 1, 1,
                          pzunmqr_calls(A, B, 0)
                          \o pztrsm_calls(
                               plasma_desc_view(A, 0, 0, A.n, A.n),
                               plasma_desc_view(B, 0, 0, A.n, B.n), 0))
               /\ Advance("alg", master.fault)
    /\ UNCHANGED <<descVars, copyVars, outWrites>>

\* plasma_pzsyr2k(uplo, trans, alpha, A, B, beta, C, ...): the tiles of the
\* chosen triangle of tile column n of C; a diagonal tile takes one
\* symmetric update for every inner tile index, an off-diagonal tile two
\* GEMMs; without inner work one kernel scales the tile.
pzsyr2k_tile(trans, alpha, A, m, n) ==
    LET inner == IF trans = "PlasmaNoTrans" THEN A.nt ELSE A.mt
        kdim  == IF trans = "PlasmaNoTrans" THEN A.n ELSE A.m
    IN  IF alpha = 0 \/ kdim = 0
        THEN << << IF m = n THEN "syr2k" ELSE "gemm", "C", m, n >> >>
        ELSE IF m = n
        THEN [ x \in 1..inner |-> << "syr2k", "C", m, n >> ]
        ELSE [ x \in 1..(2 * inner) |-> << "gemm", "C", m, n >> ]

RECURSIVE pzsyr2k_calls(_, _, _, _, _, _)
pzsyr2k_calls(uplo, trans, alpha, A, C, t) ==
    IF t >= C.mt * C.nt
    THEN << >>
    ELSE LET m == t % C.mt
             n == t \div C.mt
         IN (IF (uplo = "PlasmaLower" /\ m >= n)
                \/ (uplo = "PlasmaUpper" /\ m <= n)
             THEN pzsyr2k_tile(trans, alpha, A, m, n)
             ELSE << >>)
            \o pzsyr2k_calls(uplo, trans, alpha, A, C, t + 1)

\* plasma_omp_zsyr2k(uplo, trans, alpha, A, B, beta, C, sequence, request)
plasma_omp_zsyr2k ==
    /\ AtCall("plasma_omp_zsyr2k")
    /\ LET A == master.descs["A"]
           C == master.descs["C"]
           p == master.p
           k == IF p.trans = "PlasmaNoTrans" THEN A.n ELSE A.m
       IN IF \/ (p.uplo # "PlasmaUpper" /\ p.uplo # "PlasmaLower")
             \/ (p.trans # "PlasmaNoTrans" /\ p.trans # "PlasmaTrans")
          THEN /\ FailAndReturn("plasma_omp_zsyr2k", 1, TRUE,
                                PlasmaErrorIllegalValue)
               /\ Advance("alg", "argument")
          ELSE /\ IF C.m = 0 \/ ((p.alpha = 0 \/ k = 0) /\ p.beta = 1)
                  THEN QuickReturn("plasma_omp_zsyr2k", 1)
                  ELSE IF seqStatus # PlasmaSuccess
                  THEN FailAndReturn("plasma_omp_zsyr2k", 1, TRUE,
                                     PlasmaErrorSequence)
                  ELSE SubmitAll("plasma_omp_zsyr2k", "zsyr2k", 1, 1,
                          pzsyr2k_calls(p.uplo, p.trans, p.alpha, A, C, 0))
               /\ Advance("alg", master.fault)
    /\ UNCHANGED <<descVars, copyVars, outWrites>>

\* The call of PLASMA_ztrmm_Tile_Async made by PLASMA_ztrmm.
PLASMA_ztrmm_call_Tile_Async ==
    /\ AtCall("PLASMA_ztrmm_Tile_Async")
    /\ IF Skipped
       THEN SkipCall /\ UNCHANGED <<descVars, copyVars, outWrites>>
       ELSE PLASMA_ztrmm_Tile_Async(master.p.side, master.p.uplo,
                                    master.p.trans, master.p.diag,
                                    master.p.alpha, master.descs["A"],
                                    master.descs["B"], TRUE, TRUE, TRUE, 1)
    /\ Advance("alg", master.fault)

\* The implicit barrier closing the parallel region, the frees behind it
\* and return sequence->status.
JoinAndReturn ==
    /\ master.entered
    /\ ~master.done
    /\ master.pc = Len(Region(master.routine)) + 1
    /\ tasks = {}
    /\ master' = [master EXCEPT
                    !.done = TRUE, !.ret = seqStatus,
                    !.freed = JoinFrees(master.routine, seqStatus)]
    /\ UNCHANGED <<descVars, seqVars, copyVars, subLog>>

\* The elements of tile (m, n) of the matrix of descriptor A.
ElemsOfTile(A, m, n) ==
    { e \in Elems : /\ e[1] < A.m /\ e[1] \div A.mb = m
                    /\ e[2] < A.n /\ e[2] \div A.nb = n }

\* The body of a tile copy <<kernel, mat, m, n>>: it tests the sequence
\* status and, on Success, copies its tile from src to dst storage.
TestAndCopy(t, src, dst) ==
    /\ t \in tasks
    /\ t.pc = "ready"
    /\ tasks' = tasks \ {t}
    /\ outWrites' = IF seqStatus = PlasmaSuccess
                    THEN outWrites \cup {<<t.kind, FALSE>>}
                    ELSE outWrites
    /\ LET mat == t.args[2]
           tl  == ElemsOfTile(master.descs[mat], t.args[3], t.args[4])
       IN  mem' = IF seqStatus = PlasmaSuccess
                  THEN [mem EXCEPT ![dst][mat] =
                          [e \in Elems |-> IF e \in tl THEN mem[src][mat][e]
                                           ELSE @[e]]]
                  ELSE mem
    /\ UNCHANGED <<entryVars, descA, viewA, probe, gemm, laset, ssq, loop,
                   copyVars,
                   seqStatus, reqStatus, nextId, failLog, lastCall>>

\* Bodies of the tasks of the entry points: each tests the sequence status
\* and, on Success, works on its tile.
lapack2tile_body(t) ==
    /\ t.kind = "cm2ccrb"
    /\ DependsDone(t)
    /\ TestAndCopy(t, "user", "tile")

tile2lapack_body(t) ==
    /\ t.kind = "ccrb2cm"
    /\ DependsDone(t)
    /\ TestAndCopy(t, "tile", "user")

zgeqrs_kernel_body(t) ==
    /\ t.kind = "zgeqrs"
    /\ DependsDone(t)
    /\ TestAndCompute(t)

zsyr2k_kernel_body(t) ==
    /\ t.kind = "zsyr2k"
    /\ DependsDone(t)
    /\ TestAndCompute(t)

\* -------------------------------------------------------------------------
\* SpecEntry: one call of a synchronous entry point, the worker threads
\* running its tasks while the master thread submits
\* -------------------------------------------------------------------------
Dims  == 0..MaxDim
Uplos == {"PlasmaUpper", "PlasmaLower"}

MasterCall ==
    \/ PLASMA_zcm2ccrb_Async
    \/ PLASMA_zccrb2cm_Async
    \/ plasma_omp_zgeqrs
    \/ plasma_omp_zsyr2k
    \/ PLASMA_ztrmm_call_Tile_Async

NextEntry ==
    \/ \E m \in (0 - 1)..MaxDim, n \in Dims, nrhs \in 0..1,
          lda \in 1..MaxDim, ldb \in 0..MaxDim, Tok \in BOOLEAN,
          oom \in 0..4 :
          PLASMA_zgeqrs(m, n, nrhs, lda, ldb, Tok, oom)
    \/ \E uplo \in {"PlasmaLower", "illegal"},
          trans \in {"PlasmaNoTrans", "PlasmaTrans", "illegal"},
          n \in (0 - 1)..MaxDim, k \in (0 - 1)..1, alpha \in 0..1,
          beta \in 1..2, ld \in 1..MaxDim, oom \in 0..4 :
          PLASMA_zsyr2k(uplo, trans, n, k, alpha, ld, ld, beta, ld, oom)
    \/ \E side \in Sides, uplo \in Uplos, n \in (0 - 1)..1,
          nrhs \in Dims, alpha \in 0..1, ld \in 1..MaxDim,
          oom \in 0..3 :
          PLASMA_ztrmm(side, uplo, "PlasmaNoTrans", "PlasmaNonUnit",
                       n, nrhs, alpha, "array", ld, "array", ld, oom)
    \/ PLASMA_zcm2ccrb_Async
    \/ PLASMA_zccrb2cm_Async
    \/ plasma_omp_zgeqrs
    \/ plasma_omp_zsyr2k
    \/ PLASMA_ztrmm_call_Tile_Async
    \/ JoinAndReturn
    \/ \E t \in tasks : lapack2tile_body(t)
    \/ \E t \in tasks : tile2lapack_body(t)
    \/ \E t \in tasks : zgeqrs_kernel_body(t)
    \/ \E t \in tasks : zsyr2k_kernel_body(t)
    \/ \E t \in tasks : core_omp_ztrmm_body(t)

SpecEntry == Init /\ [][NextEntry]_vars

\* -------------------------------------------------------------------------
\* SpecTrmm: one call of PLASMA_ztrmm with legal and illegal arguments, NULL
\* and non-NULL user arrays, and every failing creation
\* -------------------------------------------------------------------------
UserArrays == {"NULL", "array"}

NextTrmm ==
    \/ /\ master.routine = "none"
       /\ \E side \in Sides, uplo \in {"PlasmaUpper", "illegal"},
             transA \in {"PlasmaNoTrans", "illegal"},
             diag \in {"PlasmaNonUnit", "illegal"},
             n \in (0 - 1)..1, nrhs \in (0 - 1)..MaxDim, alpha \in 0..1,
             A \in UserArrays, lda \in 0..MaxDim,
             B \in UserArrays, ldb \in 0..MaxDim, oom \in 0..3 :
             PLASMA_ztrmm(side, uplo, transA, diag, n, nrhs, alpha, A, lda,
                          B, ldb, oom)
    \/ PLASMA_zcm2ccrb_Async
    \/ PLASMA_zccrb2cm_Async
    \/ PLASMA_ztrmm_call_Tile_Async
    \/ JoinAndReturn
    \/ \E t \in tasks : lapack2tile_body(t)
    \/ \E t \in tasks : tile2lapack_body(t)
    \/ \E t \in tasks : core_omp_ztrmm_body(t)

SpecTrmm == Init /\ [][NextTrmm]_vars

\* -------------------------------------------------------------------------
\* SpecSsq: the scaled sum of squares of a symmetric matrix of nt-by-nt
\* tiles of order nb: core_omp_zsyssq on the diagonal tiles, the general
\* sum of squares on the tiles below them, then core_omp_zsyssq_aux
\* -------------------------------------------------------------------------
\* A double holding a non-negative rational num/den; den = 0 is a value that
\* is not finite: 0/0 (NaN, num = 0) or x/0 with x > 0 (infinity, num = 1).
RECURSIVE Gcd(_, _)
Gcd(a, b) == IF b = 0 THEN a ELSE Gcd(b, a % b)

Rat(n, d) == LET g == Gcd(n, d) IN [num |-> n \div g, den |-> d \div g]

NaN == [num |-> 0, den |-> 0]

NotFinite(x) == x.den = 0

RatAdd(x, y) ==
    IF NotFinite(x) \/ NotFinite(y) THEN NaN
    ELSE Rat(x.num * y.den + y.num * x.den, x.den * y.den)

RatMul(x, y) ==
    IF NotFinite(x) \/ NotFinite(y) THEN NaN
    ELSE Rat(x.num * y.num, x.den * y.den)

\* The quotient p / q of two doubles holding non-negative integers.
Quot(p, q) ==
    IF q = 0 THEN [num |-> IF p = 0 THEN 0 ELSE 1, den |-> 0]
    ELSE Rat(p, q)

Sq(x) == RatMul(x, x)

\* A complex number <<re, im>>.  The entries of the matrices are real or
\* purely imaginary, so that cabs is an integer.
Abs(x) == IF x < 0 THEN 0 - x ELSE x
creal(z) == z[1]
cabs(z) == Abs(z[1]) + Abs(z[2])
Vals == { <<0, 0>>, <<1, 0>>, <<0, 2>> }

\* LAPACK zlassq on one real number of modulus a: the pair (scale, sumsq) is
\* updated so that scale^2 * sumsq grows by a^2.
zlassq_part(pr, a) ==
    IF a = 0 THEN pr
    ELSE IF pr.scale < a
    THEN [scale |-> a,
          sumsq |-> RatAdd(Rat(1, 1),
                           RatMul(pr.sumsq, Sq(Quot(pr.scale, a))))]
    ELSE [scale |-> pr.scale,
          sumsq |-> RatAdd(pr.sumsq, Sq(Quot(a, pr.scale)))]

\* LAPACK zlassq on one complex element: its real part, then its imaginary
\* part.
zlassq_elem(pr, z) == zlassq_part(zlassq_part(pr, Abs(z[1])), Abs(z[2]))

\* core_zsyssq, the loop over the columns: LAPACK_zlassq on the part of
\* every column strictly above (PlasmaUpper) or strictly below (otherwise)
\* the diagonal; k runs through the tile in column-major order.
RECURSIVE core_zsyssq_columns(_, _, _, _, _)
core_zsyssq_columns(uplo, n, T, pr, k) ==
    IF k >= n * n THEN pr
    ELSE LET r == k % n
             c == k \div n
             inside == IF uplo = "PlasmaUpper" THEN r < c ELSE r > c
         IN  core_zsyssq_columns(uplo, n, T,
                                 IF inside THEN zlassq_elem(pr, T[<<r, c>>])
                                 ELSE pr,
                                 k + 1)

\* core_zsyssq, the loop over the diagonal from entry i on.
RECURSIVE core_zsyssq_diagonal(_, _, _, _)
core_zsyssq_diagonal(n, T, pr, i) ==
    IF i >= n THEN pr
    ELSE LET z    == T[<<i, i>>]
             absa == cabs(z)
             nxt  ==
               IF creal(z) # 0
               THEN IF pr.scale < absa
                    THEN [scale |-> absa,
                          sumsq |-> RatAdd(Rat(1, 1),
                                      RatMul(pr.sumsq,
                                             Sq(Quot(pr.scale, absa))))]
                    ELSE [scale |-> pr.scale,
                          sumsq |-> RatAdd(pr.sumsq,
                                           Sq(Quot(absa, pr.scale)))]
               ELSE pr
         IN  core_zsyssq_diagonal(n, T, nxt, i + 1)

\* core_zsyssq(uplo, n, A, lda, scale, sumsq)
core_zsyssq(uplo, n, T, pr) ==
    LET off == core_zsyssq_columns(uplo, n, T, pr, 0)
    IN  core_zsyssq_diagonal(n, T,
                             [off EXCEPT !.sumsq = RatMul(Rat(2, 1), @)], 0)

\* The general sum of squares of an m-by-n tile: zlassq on every column.
RECURSIVE core_zgessq(_, _, _, _, _)
core_zgessq(m, n, T, pr, k) ==
    IF k >= m * n THEN pr
    ELSE core_zgessq(m, n, T, zlassq_elem(pr, T[<<k % m, k \div m>>]),
                     k + 1)

\* Tile (i, j) of the matrix, and the place of its pair in scale and sumsq.
SsqTile(i, j) ==
    [e \in (0..(ssq.nb - 1)) \X (0..(ssq.nb - 1)) |->
        ssq.A[<<i * ssq.nb + e[1], j * ssq.nb + e[2]>>]]

SsqIdx(i, j) == ssq.nt * j + i

SsqLower ==
    { SsqIdx(e[1], e[2]) :
        e \in { x \in (0..(ssq.nt - 1)) \X (0..(ssq.nt - 1)) : x[1] >= x[2] } }

\* The symmetric matrices of the model: order nt * nb, diagonal entries
\* dv[r % 2], entries off the diagonal ov[(r + c) % 2].
InitSsq ==
    /\ \E uplo \in Uplos, nt \in 1..MaxNt, nb \in 1..MaxNb,
          dv \in [0..1 -> Vals], ov \in [0..1 -> Vals] :
          ssq = [NoSsq EXCEPT
                   !.uplo = uplo, !.nt = nt, !.nb = nb,
                   !.A = [e \in (0..(nt * nb - 1)) \X (0..(nt * nb - 1)) |->
                            IF e[1] = e[2] THEN dv[e[1] % 2]
                            ELSE ov[(e[1] + e[2]) % 2]],
                   !.scale = [x \in 0..(nt * nt - 1) |-> 0],
                   !.sumsq = [x \in 0..(nt * nt - 1) |-> Rat(0, 1)]]
    /\ \E nb \in 1..1 :
          descA = plasma_desc_general_init(nb, nb, nb, nb, 0, 0, nb, nb,
                                           <<"A21", "A12", "A22">>)
    /\ viewA = descA
    /\ probe = NoProbe
    /\ IdleSeq
    /\ IdleEntry
    /\ IdleGemm
    /\ IdleLaset
    /\ IdleMem
    /\ IdleLoop
    /\ IdleCopy

\* The task of core_omp_zsyssq on diagonal tile k.
core_omp_zsyssq_task(k) ==
    /\ SsqIdx(k, k) \notin ssq.done
    /\ LET pr == core_zsyssq(ssq.uplo, ssq.nb, SsqTile(k, k),
                             [scale |-> 0, sumsq |-> Rat(1, 1)])
       IN  ssq' = IF seqStatus = PlasmaSuccess
                  THEN [ssq EXCEPT !.scale[SsqIdx(k, k)] = pr.scale,
                                   !.sumsq[SsqIdx(k, k)] = pr.sumsq,
                                   !.done = @ \cup {SsqIdx(k, k)}]
                  ELSE [ssq EXCEPT !.done = @ \cup {SsqIdx(k, k)}]
    /\ UNCHANGED <<descA, viewA, probe, gemm, laset, mem, loop, seqVars,
                   copyVars, entryVars>>

\* The task of the general sum of squares on tile (i, j) below the diagonal.
core_omp_zgessq_task(i, j) ==
    /\ i > j
    /\ SsqIdx(i, j) \notin ssq.done
    /\ LET pr == core_zgessq(ssq.nb, ssq.nb, SsqTile(i, j),
                             [scale |-> 0, sumsq |-> Rat(1, 1)], 0)
       IN  ssq' = IF seqStatus = PlasmaSuccess
                  THEN [ssq EXCEPT !.scale[SsqIdx(i, j)] = pr.scale,
                                   !.sumsq[SsqIdx(i, j)] = pr.sumsq,
                                   !.done = @ \cup {SsqIdx(i, j)}]
                  ELSE [ssq EXCEPT !.done = @ \cup {SsqIdx(i, j)}]
    /\ UNCHANGED <<descA, viewA, probe, gemm, laset, mem, loop, seqVars,
                   copyVars, entryVars>>

\* One turn of the loops of core_omp_zsyssq_aux on the pair at idx: st holds
\* scl and sum, the indices read so far, and whether a quotient has been
\* taken with a zero divisor.
zsyssq_aux_turn(st, idx) ==
    LET sc == ssq.scale[idx]
        sq == ssq.sumsq[idx]
    IN  IF st.scl < sc
        THEN [scl |-> sc,
              sum |-> RatAdd(sq, RatMul(st.sum, Sq(Quot(st.scl, sc)))),
              reads |-> st.reads \cup {idx},
              divzero |-> st.divzero \/ sc = 0]
        ELSE [scl |-> st.scl,
              sum |-> RatAdd(st.sum, RatMul(sq, Sq(Quot(sc, st.scl)))),
              reads |-> st.reads \cup {idx},
              divzero |-> st.divzero \/ st.scl = 0]

\* for (j = 0; j < n; j++) for (i = j+1; i < n; i++): k runs through the
\* pairs in column-major order.
RECURSIVE zsyssq_aux_lower(_, _, _, _)
zsyssq_aux_lower(m, n, st, k) ==
    IF k >= n * n THEN st
    ELSE LET i == k % n
             j == k \div n
         IN  zsyssq_aux_lower(m, n,
                              IF i > j THEN zsyssq_aux_turn(st, m * j + i)
                              ELSE st,
                              k + 1)

\* for (j = 0; j < n; j++) on idx = m*j+j
RECURSIVE zsyssq_aux_diagonal(_, _, _, _)
zsyssq_aux_diagonal(m, n, st, j) ==
    IF j >= n THEN st
    ELSE zsyssq_aux_diagonal(m, n, zsyssq_aux_turn(st, m * j + j), j + 1)

\* The body of the task of core_omp_zsyssq_aux(m, n, scale, sumsq, value):
\* the state of its loops at *value = scl*sqrt(sum).
zsyssq_aux_loops(m, n) ==
    LET st0 == [scl |-> 0, sum |-> Rat(1, 1), reads |-> {},
                divzero |-> FALSE]
        low == zsyssq_aux_lower(m, n, st0, 0)
    IN  zsyssq_aux_diagonal(m, n,
                            [low EXCEPT !.sum = RatMul(Rat(2, 1), @)], 0)

\* The task of core_omp_zsyssq_aux, run when the pairs of all tiles are
\* written; value holds the square of scl*sqrt(sum).
core_omp_zsyssq_aux_task ==
    /\ ~ssq.valued
    /\ ssq.nt > 0
    /\ ssq.done = SsqLower
    /\ LET st == zsyssq_aux_loops(ssq.nt, ssq.nt)
       IN  ssq' = IF seqStatus = PlasmaSuccess
                  THEN [ssq EXCEPT
                          !.valued = TRUE,
                          !.value = RatMul(Rat(st.scl * st.scl, 1), st.sum),
                          !.reads = st.reads,
                          !.divzero = st.divzero]
                  ELSE [ssq EXCEPT !.valued = TRUE]
    /\ UNCHANGED <<descA, viewA, probe, gemm, laset, mem, loop, seqVars,
                   copyVars, entryVars>>

NextSsq ==
    \/ \E k \in 0..(ssq.nt - 1) : core_omp_zsyssq_task(k)
    \/ \E i \in 0..(ssq.nt - 1), j \in 0..(ssq.nt - 1) :
          core_omp_zgessq_task(i, j)
    \/ core_omp_zsyssq_aux_task

SpecSsq == InitSsq /\ [][NextSsq]_vars

\* -------------------------------------------------------------------------
\* SpecLoop: one call of core_zgeqrt or core_zgelqt followed through its
\* argument checks and the iterations of its blocking loop
\* -------------------------------------------------------------------------
\* A plausible slip: every block is taken ib wide.
panel_sb_full(ib, k, i) == ib

\* int sb = imin(ib, k-i);
panel_sb(ib, k, i) == imin(ib, k - i)

\* The calls of the kernel within the bounds: lda and lwork just below and
\* at the least legal value.
InitLoop ==
    /\ \E kind \in {"zgeqrt", "zgelqt"}, m \in 0..MaxPanel, n \in 0..MaxPanel,
          ib \in 0..MaxPanel, dlda \in 0..1, dlwork \in 0..1 :
          loop = [NoLoop EXCEPT
                    !.kind = kind, !.m = m, !.n = n, !.ib = ib,
                    !.lda = imax(1, m) - dlda, !.ldt = imax(1, ib),
                    !.lwork = ib * (IF kind = "zgeqrt" THEN n ELSE m)
                              - dlwork,
                    !.pc = "entry"]
    /\ \E nb \in 1..1 :
          descA = plasma_desc_general_init(nb, nb, nb, nb, 0, 0, nb, nb,
                                           <<"A21", "A12", "A22">>)
    /\ viewA = descA
    /\ probe = NoProbe
    /\ IdleSeq
    /\ IdleEntry
    /\ IdleGemm
    /\ IdleLaset
    /\ IdleMem
    /\ IdleSsq
    /\ IdleCopy

LoopFrame ==
    UNCHANGED <<descA, viewA, probe, gemm, laset, mem, ssq, seqVars,
                copyVars, entryVars>>

\* "Check input arguments" and "Quick return": the kernel returns or enters
\* its loop with i = 0.
panel_kernel_entry ==
    /\ loop.pc = "entry"
    /\ LET info == IF loop.kind = "zgeqrt"
                   THEN core_zgeqrt(loop.m, loop.n, loop.ib, loop.lda,
                                    loop.ldt, loop.lwork)
                   ELSE core_zgelqt(loop.m, loop.n, loop.ib, loop.lda,
                                    loop.ldt, loop.lwork)
       IN  loop' = IF info # PlasmaSuccess
                   THEN [loop EXCEPT !.pc = "done", !.ret = info]
                   ELSE IF loop.m = 0 \/ loop.n = 0 \/ loop.ib = 0
                   THEN [loop EXCEPT !.pc = "done", !.ret = PlasmaSuccess]
                   ELSE [loop EXCEPT !.pc = "loop", !.i = 0]
    /\ LoopFrame

\* One iteration of for (i = 0; i < k; i += ib): the factorization of the
\* panel [i, i+sb) (zgeqr2 or zgelq2 on A), zlarft on T, and zlarfb on the
\* rest of A if (n > i+sb) resp. (m > i+sb).
panel_kernel_iteration ==
    /\ loop.pc = "loop"
    /\ LET k  == imin(loop.m, loop.n)
           sb == panel_sb(loop.ib, k, loop.i)
           rest == IF loop.kind = "zgeqrt" THEN loop.n ELSE loop.m
       IN  /\ loop.i < k
           /\ loop' = [loop EXCEPT
                         !.calls = Append(@, [i |-> loop.i, sb |-> sb,
                                              larfb |-> rest > loop.i + sb]),
                         !.i = @ + loop.ib]
    /\ LoopFrame

\* The loop ends: return PlasmaSuccess.
panel_kernel_return ==
    /\ loop.pc = "loop"
    /\ ~(loop.i < imin(loop.m, loop.n))
    /\ loop' = [loop EXCEPT !.pc = "done", !.ret = PlasmaSuccess]
    /\ LoopFrame

NextLoop ==
    \/ panel_kernel_entry
    \/ panel_kernel_iteration
    \/ panel_kernel_return

\* The kernel is a sequential function: it keeps running until it returns.
SpecLoop == InitLoop /\ [][NextLoop]_vars /\ WF_vars(NextLoop)

\* -------------------------------------------------------------------------
\* Sequence and request claims
\* -------------------------------------------------------------------------
\* C1 (as claimed): no code path records Success (0) as a failure value,
\* and once a failure has been recorded on the sequence its status is
\* non-Success and stays so.
C1_StatusMonotoneAsClaimed ==
    /\ \A k \in 1..Len(failLog) : failLog[k] # PlasmaSuccess
    /\ failLog # << >> => seqStatus # PlasmaSuccess

\* The part of C1 that the code does satisfy: a status that is non-Success
\* is never set back to Success.
StatusNeverReverts ==
    [][ /\ seqStatus # PlasmaSuccess => seqStatus' # PlasmaSuccess
        /\ \A q \in 1..NReq :
              reqStatus[q] # PlasmaSuccess => reqStatus'[q] # PlasmaSuccess
      ]_vars

\* C2 (as claimed): the sequence status is the first error recorded on the
\* sequence, whatever is recorded afterwards.
C2_FirstErrorWinsAsClaimed ==
    failLog # << >> => seqStatus = failLog[1]

\* The first value of a log that is not Success, Success if there is none.
RECURSIVE FirstError(_)
FirstError(log) ==
    IF log = << >> THEN PlasmaSuccess
    ELSE IF Head(log) # PlasmaSuccess THEN Head(log)
    ELSE FirstError(Tail(log))

\* What does hold: the sequence status is the first recorded value that is
\* not Success.
FirstNonSuccessWins ==
    seqStatus = FirstError(failLog)

\* C3 (as claimed): no task body writes its out or inout region when the
\* sequence status was non-Success at the start of the body.
C3_BodiesSkipOnFailureAsClaimed ==
    \A w \in outWrites : ~w[2]

\* What does hold: the bodies that write on a failed sequence are the GEMM
\* tile task and the precision conversion only.
OnlyUntestedBodiesWrite ==
    \A w \in outWrites : w[2] => w[1] \in {"zgemm", "clag2z"}

\* The status a request holds after plasma_request_fail(err).
AfterFail(before, err) == IF before = PlasmaSuccess THEN err ELSE before

\* C4 (amended): a routine called on a failed sequence submits no task;
\* plasma_pdge2desc leaves the request as it was; each of the other four
\* records PlasmaErrorSequence in a request that held no error, unless one
\* of its checks that come before the status test fails, and then it records
\* PlasmaErrorIllegalValue; a request that held an error keeps it.
C4_FailedSequenceSubmission ==
    (lastCall.name # "none" /\ lastCall.seqBefore # PlasmaSuccess) =>
        /\ lastCall.submitted = 0
        /\ lastCall.reqAfter =
              IF lastCall.name = "plasma_pdge2desc"
              THEN lastCall.reqBefore
              ELSE IF lastCall.valid
              THEN AfterFail(lastCall.reqBefore, PlasmaErrorSequence)
              ELSE AfterFail(lastCall.reqBefore, PlasmaErrorIllegalValue)

\* C4 witness: plasma_pzoocm2ccrb_band was called on a failed sequence with
\* a request that held no error, and flushed it.
C4_Witness ==
    /\ lastCall.name = "plasma_pzoocm2ccrb_band"
    /\ lastCall.seqBefore # PlasmaSuccess
    /\ lastCall.reqBefore = PlasmaSuccess
    /\ lastCall.reqAfter = PlasmaErrorSequence
    /\ lastCall.submitted = 0

\* C4 (as claimed): every routine called on a failed sequence submits no
\* task and records PlasmaErrorSequence in its request.
C4_FlushAsClaimed ==
    (lastCall.name # "none" /\ lastCall.seqBefore # PlasmaSuccess) =>
        /\ lastCall.submitted = 0
        /\ lastCall.reqAfter = PlasmaErrorSequence

\* -------------------------------------------------------------------------
\* Entry point claims
\* -------------------------------------------------------------------------
PhaseRank(phase) ==
    IF phase = "in" THEN 1 ELSE IF phase = "alg" THEN 2 ELSE 3

\* C5: in a synchronous entry point that passed validation the master
\* thread submits every user-to-tile translation task before every task of
\* the algorithm and these before every tile-to-user translation task; while
\* it is inside the parallel region its next call can always be made,
\* whatever tasks are pending, so it waits only at the join; and the value
\* returned is the sequence status after the join, when no task is left.
C5_EntryPointOrder ==
    /\ \A i \in 1..Len(subLog), j \in 1..Len(subLog) :
          i < j => PhaseRank(subLog[i]) <= PhaseRank(subLog[j])
    /\ (master.entered /\ master.pc \in 1..Len(Region(master.routine)))
          => ENABLED MasterCall
    /\ (master.entered /\ master.done)
          => (tasks = {} /\ master.ret = seqStatus)

\* C5 witness: PLASMA_zgeqrs has reached the join having submitted tasks of
\* all three phases while a user-to-tile translation task is still pending.
C5_Witness ==
    /\ master.routine = "PLASMA_zgeqrs"
    /\ master.entered
    /\ ~master.done
    /\ master.pc = Len(PLASMA_zgeqrs_region) + 1
    /\ \A ph \in {"in", "alg", "out"} :
          \E i \in 1..Len(subLog) : subLog[i] = ph
    /\ \E t \in tasks : t.kind = "cm2ccrb"

\* C6 (as claimed): when an entry point has returned after a failure of
\* argument validation, of a descriptor check (that of T included) or of an
\* allocation, no task was ever submitted and no task has written a user
\* array.
C6_FailuresBeforeSubmissionAsClaimed ==
    (master.done /\ master.fault # "none") =>
        /\ nextId = 0
        /\ \A w \in outWrites : w[1] # "ccrb2cm"

\* What the entry points do guarantee: a failure of argument validation or
\* of an allocation returns before the parallel region with nothing
\* submitted, and after any failure no task has written a user array.
FailuresLeaveUserArrays ==
    (master.done /\ master.fault # "none") =>
        /\ (master.fault \in {"argument", "allocation"} => nextId = 0)
        /\ \A w \in outWrites : w[1] # "ccrb2cm"

\* -------------------------------------------------------------------------
\* Band translation claims
\* -------------------------------------------------------------------------
\* Upper and lower width of the window plasma_pzoocm2ccrb_band copies:
\* j - i <= BandUp, i - j <= BandLow.
BandUp(uplo, A) ==
    IF uplo = "PlasmaGeneral" THEN A.ku + A.kl
    ELSE IF uplo = "PlasmaUpper" THEN A.ku ELSE 0

BandLow(uplo, A) ==
    IF uplo = "PlasmaUpper" THEN 0 ELSE A.kl

\* Some element (i, j) of tile (m, n) lies in the window; lastRow and
\* lastCol are the last row and column counted as part of the tile.
InWindow(uplo, A, m, n, lastRow, lastCol) ==
    \E i \in (m * A.nb)..lastRow, j \in (n * A.nb)..lastCol :
        /\ j - i <= BandUp(uplo, A)
        /\ i - j <= BandLow(uplo, A)

\* Tile (m, n) of the m-by-n matrix intersects the window.
TileInWindow(uplo, A, m, n) ==
    InWindow(uplo, A, m, n, imin((m + 1) * A.nb, A.m) - 1,
                            imin((n + 1) * A.nb, A.n) - 1)

\* The same with every tile taken at its full nb-by-nb size.
FullTileInWindow(uplo, A, m, n) ==
    InWindow(uplo, A, m, n, (m + 1) * A.nb - 1, (n + 1) * A.nb - 1)

\* The call has been made and none of its tasks has run yet.
BandJustCalled ==
    /\ lastCall.name = "plasma_pzoocm2ccrb_band"
    /\ Cardinality(tasks) = lastCall.submitted

BandVisited == { << t.args[2], t.args[3] >> : t \in tasks }

\* C11 (as claimed): the tasks are one for each tile row from
\* ceil(max(0, n*nb - ku - kl)/nb) to floor(min(A.m - 1, (n+1)*nb + kl -
\* 1)/nb) of each tile column n (ku only below for Upper, kl only above for
\* Lower), and these are exactly the tiles that intersect the band window.
C11_BandWindowAsClaimed ==
    BandJustCalled =>
        /\ BandVisited =
             { mn \in (0..(viewA.mt - 1)) \X (0..(viewA.nt - 1)) :
                 /\ mn[1] >= CeilDiv(imax(0, mn[2] * viewA.nb
                                             - BandUp(viewA.uplo, viewA)),
                                     viewA.nb)
                 /\ mn[1] <= imin(viewA.m - 1,
                                  (mn[2] + 1) * viewA.nb
                                  + BandLow(viewA.uplo, viewA) - 1)
                             \div viewA.nb }
        /\ BandVisited =
             { mn \in (0..(viewA.mt - 1)) \X (0..(viewA.nt - 1)) :
                 TileInWindow(viewA.uplo, viewA, mn[1], mn[2]) }

\* C11: the tasks are one for each tile row from floor(max(0, n*nb - ku -
\* kl)/nb) to floor(min(A.m - 1, (n+1)*nb + kl - 1)/nb) of each tile column
\* n in [0, A.nt) (ku only below for Upper, kl only above for Lower) and
\* none for another (m, n); every tile that intersects the band window is
\* visited, and the visited tiles are exactly the tile rows below A.m whose
\* full nb-by-nb tile intersects the window.
C11_BandWindow ==
    BandJustCalled =>
        /\ lastCall.submitted = Cardinality(BandVisited)
        /\ BandVisited =
             { mn \in (0..(viewA.mt - 1)) \X (0..(viewA.nt - 1)) :
                 /\ mn[1] >= imax(0, mn[2] * viewA.nb
                                     - BandUp(viewA.uplo, viewA))
                             \div viewA.nb
                 /\ mn[1] <= imin(viewA.m - 1,
                                  (mn[2] + 1) * viewA.nb
                                  + BandLow(viewA.uplo, viewA) - 1)
                             \div viewA.nb }
        /\ \A m \in 0..(viewA.mt - 1), n \in 0..(viewA.nt - 1) :
              /\ TileInWindow(viewA.uplo, viewA, m, n)
                    => << m, n >> \in BandVisited
              /\ << m, n >> \in BandVisited
                    <=> FullTileInWindow(viewA.uplo, viewA, m, n)

\* C11 witness: a General band over several tile rows and columns where
\* the call has left a tile out and the first visited tile row of a column
\* starts inside the window (n*nb - ku - kl is not a multiple of nb).
C11_Witness ==
    /\ BandJustCalled
    /\ viewA.uplo = "PlasmaGeneral"
    /\ viewA.mt > 1
    /\ viewA.nt > 1
    /\ Cardinality(BandVisited) < viewA.mt * viewA.nt
    /\ \E n \in 0..(viewA.nt - 1) :
          /\ n * viewA.nb - viewA.ku - viewA.kl > 0
          /\ (n * viewA.nb - viewA.ku - viewA.kl) % viewA.nb # 0

(***************************************************************************)
(* GEMM: what plasma_pzgemm submits and what the tasks compute.            *)
(***************************************************************************)
\* The inner dimension of the product: columns of op(A).
GemmInner == IF gemm.transA = "PlasmaNoTrans" THEN gemm.A.n ELSE gemm.A.m

\* plasma_pzgemm has returned; with AllPending every task it submitted is
\* still there, with AllDone every one has finished.
GemmCalled == lastCall.name = "plasma_pzgemm"
GemmAllPending == GemmCalled /\ Cardinality(tasks) = lastCall.submitted
GemmAllDone == GemmCalled /\ tasks = {}

\* The tasks handed tile C(m, n).
TasksOn(m, n) == { t \in tasks : t.args[12] = plasma_tile_addr(gemm.C, m, n) }

GemmK == IF gemm.transA = "PlasmaNoTrans" THEN gemm.A.nt ELSE gemm.A.mt
GemmATile(m, k) ==
    IF gemm.transA = "PlasmaNoTrans"
    THEN plasma_tile_addr(gemm.A, m, k)
    ELSE plasma_tile_addr(gemm.A, k, m)

\* Step k of the k loop for tile C(m, n): the task on C(m, n) that reads the
\* k-th tile of A.
StepsOn(m, n, k) == { t \in TasksOn(m, n) : t.args[7] = GemmATile(m, k) }

\* C13: with alpha # 0 and a non-zero inner dimension, plasma_pzgemm submits
\* for every tile C(m, n) exactly K tasks (K = A.nt for NoTrans A, A.mt
\* otherwise), one for each k in 0..K-1, in increasing k; the task of k = 0
\* carries the caller's beta and every later one carries 1.
C13_AccumulationOrder ==
    (GemmAllPending /\ gemm.alpha # 0 /\ GemmInner # 0) =>
        \A m \in 0..gemm.C.mt - 1, n \in 0..gemm.C.nt - 1 :
           /\ Cardinality(TasksOn(m, n)) = GemmK
           /\ \A k \in 0..GemmK - 1 :
                 \E t \in tasks :
                    /\ StepsOn(m, n, k) = {t}
                    /\ t.args[11] = IF k = 0 THEN gemm.beta ELSE 1
                    /\ \A u \in TasksOn(m, n) :
                          u.id < t.id <=>
                             \E j \in 0..k - 1 : u \in StepsOn(m, n, j)

\* C13 witness: a transposed A of two tile rows and a C of several tiles;
\* the tasks have been submitted, two for every tile of C.
C13_Witness ==
    /\ GemmAllPending
    /\ gemm.alpha # 0
    /\ gemm.transA # "PlasmaNoTrans"
    /\ GemmK = 2
    /\ gemm.C.mt * gemm.C.nt >= 2
    /\ lastCall.submitted = 2 * gemm.C.mt * gemm.C.nt

\* C14: for the task of step k on tile C(m, n), plasma_pzgemm passes tiles
\* A(m,k), B(k,n) for NoTrans/NoTrans, A(m,k), B(n,k) for NoTrans/Trans,
\* A(k,m), B(k,n) for Trans/NoTrans and A(k,m), B(n,k) for Trans/Trans; the
\* shape is (tile_mview(C,m), tile_nview(C,n)), the inner size tile_nview(A,k)
\* for NoTrans A and tile_mview(A,k) otherwise, and every leading dimension
\* is tile_mmain of the tile row addressed (A: m or k, B: k or n, C: m).
C14_TileSelection ==
    (GemmAllPending /\ gemm.alpha # 0 /\ GemmInner # 0) =>
        \A m \in 0..gemm.C.mt - 1, n \in 0..gemm.C.nt - 1, k \in 0..GemmK - 1 :
           \A t \in StepsOn(m, n, k) :
              /\ t.args[1] = gemm.transA
              /\ t.args[2] = gemm.transB
              /\ t.args[3] = plasma_tile_mview(gemm.C, m)
              /\ t.args[4] = plasma_tile_nview(gemm.C, n)
              /\ t.args[12] = plasma_tile_addr(gemm.C, m, n)
              /\ t.args[13] = plasma_tile_mmain(gemm.C, m)
              /\ IF gemm.transA = "PlasmaNoTrans"
                 THEN /\ t.args[5] = plasma_tile_nview(gemm.A, k)
                      /\ t.args[7] = plasma_tile_addr(gemm.A, m, k)
                      /\ t.args[8] = plasma_tile_mmain(gemm.A, m)
                 ELSE /\ t.args[5] = plasma_tile_mview(gemm.A, k)
                      /\ t.args[7] = plasma_tile_addr(gemm.A, k, m)
                      /\ t.args[8] = plasma_tile_mmain(gemm.A, k)
              /\ IF gemm.transB = "PlasmaNoTrans"
                 THEN /\ t.args[9] = plasma_tile_addr(gemm.B, k, n)
                      /\ t.args[10] = plasma_tile_mmain(gemm.B, k)
                 ELSE /\ t.args[9] = plasma_tile_addr(gemm.B, n, k)
                      /\ t.args[10] = plasma_tile_mmain(gemm.B, n)

\* C14 witness: NoTrans A and transposed B, with C of two tile columns and
\* two steps of the k loop, so that B(n, k) and B(k, n) are different tiles;
\* a task of step k = 1 on tile column n = 0 is pending.
C14_Witness ==
    /\ GemmAllPending
    /\ gemm.alpha # 0
    /\ gemm.transA = "PlasmaNoTrans"
    /\ gemm.transB # "PlasmaNoTrans"
    /\ gemm.C.nt = 2
    /\ GemmK = 2
    /\ StepsOn(0, 0, 1) # {}
    /\ plasma_tile_addr(gemm.B, 0, 1) # plasma_tile_addr(gemm.B, 1, 0)

\* A task whose kernel has run and ended.
GemmFinished(id) == id \in 0..nextId - 1 /\ \A t \in tasks : t.id # id

\* C15: in every schedule of the tasks plasma_pzgemm submits, no two tasks
\* handed the same tile C(m, n) are running at the same time, and a task of
\* step k on C(m, n) has not started while a task of an earlier step on
\* C(m, n) has not finished: the steps on one tile run in increasing k.
C15_SchedulingSafety ==
    GemmCalled =>
        /\ \A t \in tasks, u \in tasks :
              (t # u /\ t.args[12] = u.args[12]) =>
                  ~(t.pc = "running" /\ u.pc = "running")
        /\ \A m \in 0..gemm.C.mt - 1, n \in 0..gemm.C.nt - 1 :
              \A k \in 0..GemmK - 1, j \in 0..GemmK - 1 :
                 \A t \in StepsOn(m, n, k), u \in StepsOn(m, n, j) :
                    j < k => t.pc = "ready"

\* C15 witness: tasks on different tiles are unordered.  C has four tiles
\* with two steps each (tasks 0,1 on the first tile, 2,3 on the second, 4,5 on
\* the third, 6,7 on the last).  Both steps on the second tile have finished
\* before the first tile's first step ends (the later-submitted first), the
\* third tile is through its first step while the last tile, submitted after
\* it, is further on, and tasks of the first and the third tile are running
\* at the same time.
C15_Witness ==
    /\ GemmCalled
    /\ lastCall.submitted = 8
    /\ GemmFinished(2) /\ GemmFinished(3)
    /\ \E t \in tasks : t.id = 0 /\ t.pc = "running"
    /\ GemmFinished(4)
    /\ \E t \in tasks : t.id = 5 /\ t.pc = "running"
    /\ GemmFinished(6) /\ GemmFinished(7)

\* Element (r, l) of op(A), element (l, c) of op(B), and element (r, c) of
\* the exact product alpha * op(A) * op(B) + beta * C0.
GemmOpA(r, l) == IF gemm.transA = "PlasmaNoTrans" THEN Aval(r, l) ELSE Aval(l, r)
GemmOpB(l, c) == IF gemm.transB = "PlasmaNoTrans" THEN Bval(l, c) ELSE Bval(c, l)
GemmExpected(r, c) ==
    gemm.alpha * SumFn([l \in 0..GemmInner - 1 |-> GemmOpA(r, l) * GemmOpB(l, c)],
                       GemmInner)
    + gemm.beta * C0val(gemm.C.i + r, gemm.C.j + c)

\* C16: once every task of plasma_pzgemm has finished on a non-failed
\* sequence, every element (r, c) of C holds
\* alpha * sum_l op(A)(r, l) * op(B)(l, c) + beta * C0(r, c), whatever the
\* schedule and the transpose combination.
C16_ResultAsClaimed ==
    (GemmAllDone /\ seqStatus = PlasmaSuccess) =>
        \A r \in 0..gemm.C.m - 1, c \in 0..gemm.C.n - 1 :
           gemm.Cmem[ElemAddr(gemm.C, r, c) + 1] = GemmExpected(r, c)

\* The result is the claimed one when C is a whole matrix (origin 0).
ResultOfWholeMatrix ==
    (GemmAllDone /\ seqStatus = PlasmaSuccess /\ gemm.C.i = 0 /\ gemm.C.j = 0) =>
        \A r \in 0..gemm.C.m - 1, c \in 0..gemm.C.n - 1 :
           gemm.Cmem[ElemAddr(gemm.C, r, c) + 1] = GemmExpected(r, c)

\* The whole-matrix case happens: a product over two steps of the k loop on
\* a C of four tiles has finished.
WholeMatrixDone ==
    /\ GemmAllDone
    /\ gemm.C.i = 0
    /\ gemm.alpha # 0
    /\ lastCall.submitted = 8

(***************************************************************************)
(* Cholesky failure reporting                                              *)
(***************************************************************************)
\* The step of a CORE_OMP_zpotrf task t that tests the sequence status, and
\* the step that ends its kernel.
ZpotrfTests(t) ==
    t \in tasks /\ t.kind = "zpotrf" /\ t.pc = "ready" /\ t \notin tasks'
ZpotrfEnds(t) ==
    t \in tasks /\ t.kind = "zpotrf" /\ t.pc = "kernel" /\ t \notin tasks'

\* C17 (as claimed): a CORE_OMP_zpotrf task that found the sequence at
\* Success either leaves the statuses unchanged (info = 0) or reports a
\* failure, the global index iinfo + info of a leading minor, which lies
\* beyond the tile offset iinfo, on the sequence and on the request unless
\* they hold an earlier error; a task that finds the sequence failed ends
\* without calling its kernel and without a write to the tile.
C17_FailureReportingAsClaimed ==
    [][ \A t \in tasks :
           /\ ZpotrfEnds(t) =>
                \/ UNCHANGED <<seqStatus, reqStatus, failLog>>
                \/ \E x \in (t.args[3] + 1)..(t.args[3] + MaxInfo) :
                      /\ failLog' = Append(failLog, x)
                      /\ seqStatus' = AfterFail(seqStatus, x)
                      /\ reqStatus'[t.req] = AfterFail(reqStatus[t.req], x)
           /\ (ZpotrfTests(t) /\ seqStatus # PlasmaSuccess) =>
                /\ \A u \in tasks' : u.id # t.id
                /\ UNCHANGED <<seqStatus, reqStatus, failLog, outWrites>>
      ]_vars

\* What does hold: the kernel's end either leaves the statuses unchanged
\* or hands some value iinfo + info with info # 0 to plasma_request_fail;
\* and a task that finds the sequence failed ends without kernel or write.
ZpotrfRecordsSum ==
    [][ \A t \in tasks :
           /\ ZpotrfEnds(t) =>
                \/ UNCHANGED <<seqStatus, reqStatus, failLog>>
                \/ \E info \in (0 - MaxInfo)..MaxInfo :
                      /\ info # 0
                      /\ failLog' = Append(failLog, t.args[3] + info)
                      /\ seqStatus' = AfterFail(seqStatus, t.args[3] + info)
                      /\ reqStatus'[t.req] =
                            AfterFail(reqStatus[t.req], t.args[3] + info)
           /\ (ZpotrfTests(t) /\ seqStatus # PlasmaSuccess) =>
                /\ \A u \in tasks' : u.id # t.id
                /\ UNCHANGED <<seqStatus, reqStatus, failLog, outWrites>>
      ]_vars

(***************************************************************************)
(* Workspace of the panel tasks                                            *)
(***************************************************************************)
\* The panel tasks whose body is past its status test and in its kernel.
PanelRunning ==
    { t \in tasks : t.kind \in {"zgeqrt", "zgelqt"} /\ t.pc = "kernel" }

\* TAU and WORK as the claim has them: elements [0, ltau) and
\* [ltau, lwork) of the buffer of the worker running the task, ltau = n for
\* GEQRT and m for GELQT, lwork the length of the buffer.
ClaimedLtau(t) == IF t.kind = "zgeqrt" THEN t.args[2] ELSE t.args[1]
ClaimedTau(t)  == { <<t.tid, x>> : x \in 0..ClaimedLtau(t) - 1 }
ClaimedWork(t) == { <<t.tid, x>> : x \in ClaimedLtau(t)..t.args[6] - 1 }

\* C19: the kernel of a running core_omp_zgeqrt or core_omp_zgelqt task uses
\* only elements of the buffer of the worker that runs it, its TAU inside
\* [0, ltau) and its WORK inside [ltau, lwork), two ranges that do not
\* overlap; and two panel tasks that are running at the same time are on
\* different workers and use no common buffer.
C19_WorkspaceIsolation ==
    /\ \A t \in PanelRunning :
          /\ t.tid \in 1..NWorkers
          /\ panel_tau(t) \subseteq ClaimedTau(t)
          /\ panel_work(t) \subseteq ClaimedWork(t)
          /\ ClaimedTau(t) \cap ClaimedWork(t) = {}
    /\ \A t \in PanelRunning, u \in PanelRunning :
          t # u =>
             /\ t.tid # u.tid
             /\ { w[1] : w \in panel_tau(t) \cup panel_work(t) }
                \cap { w[1] : w \in panel_tau(u) \cup panel_work(u) } = {}

\* C19 witness: a GEQRT task and a GELQT task are running at the same
\* time, each using elements of its TAU and of its WORK.
C19_Witness ==
    \E t \in PanelRunning, u \in PanelRunning :
       /\ t.kind = "zgeqrt"
       /\ u.kind = "zgelqt"
       /\ panel_tau(t) # {} /\ panel_work(t) # {}
       /\ panel_tau(u) # {} /\ panel_work(u) # {}

(***************************************************************************)
(* Argument validation of PLASMA_zgeqrs                                    *)
(***************************************************************************)
\* PLASMA_zgeqrs was called with m >= n >= 0, nrhs >= 0 and
\* lda >= max(1, m); master.args is <<m, n, nrhs, lda, ldb>>.
ZgeqrsCalledLegal ==
    /\ master.routine = "PLASMA_zgeqrs"
    /\ master.args[1] >= master.args[2]
    /\ master.args[2] >= 0
    /\ master.args[3] >= 0
    /\ master.args[4] >= imax(1, master.args[1])

\* PLASMA_zgeqrs has returned -8 from its argument validation.
ZgeqrsRejectsLdb ==
    /\ master.done
    /\ ~master.entered
    /\ master.fault = "argument"
    /\ master.ret = 0 - 8

\* C20 (as claimed): PLASMA_zgeqrs returns -8 if ldb < max(1, n) and does
\* not fail argument validation for any ldb >= max(1, n).
C20_LdbAsClaimed ==
    ZgeqrsCalledLegal =>
        IF master.args[5] < imax(1, master.args[2])
        THEN ZgeqrsRejectsLdb
        ELSE master.fault # "argument"

\* What the code does: with m >= n >= 0, nrhs >= 0 and lda >= max(1, m),
\* PLASMA_zgeqrs returns -8 if ldb < max(1, m) and does not fail argument
\* validation for any ldb >= max(1, m).
LdbCheckedAgainstM ==
    ZgeqrsCalledLegal =>
        IF master.args[5] < imax(1, master.args[1])
        THEN ZgeqrsRejectsLdb
        ELSE master.fault # "argument"

\* The case happens: a call with n <= ldb < m has returned -8.
LdbBetweenRejected ==
    /\ ZgeqrsCalledLegal
    /\ master.args[5] >= imax(1, master.args[2])
    /\ master.args[5] < master.args[1]
    /\ ZgeqrsRejectsLdb

(***************************************************************************)
(* LASET                                                                   *)
(***************************************************************************)
\* plasma_zlaset has returned and its tasks have finished.
LasetDone == lastCall.name = "plasma_zlaset" /\ tasks = {}

\* Element (r, c) is inside the uplo region.
InUplo(uplo, r, c) ==
    \/ uplo = "PlasmaGeneral"
    \/ uplo = "PlasmaUpper" /\ r <= c
    \/ uplo = "PlasmaLower" /\ r >= c

\* C18: after plasma_zlaset(uplo, m, n, alpha, beta, A, lda), for Upper,
\* Lower and General, every diagonal element of the m by n matrix is beta,
\* every off-diagonal element inside the uplo region is alpha and every
\* element outside it holds its input value; the rows of padding hold their
\* input values, and the test finds the result equal to the reference.
C18_Laset ==
    LasetDone =>
        /\ \A r \in 0..laset.m - 1, c \in 0..laset.n - 1 :
              laset.A[r + c * laset.lda + 1] =
                 IF r = c THEN laset.beta
                 ELSE IF InUplo(laset.uplo, r, c) THEN laset.alpha
                 ELSE laset.Aref[r + c * laset.lda + 1]
        /\ \A r \in laset.m..laset.lda - 1, c \in 0..laset.n - 1 :
              laset.A[r + c * laset.lda + 1] =
                 laset.Aref[r + c * laset.lda + 1]
        /\ test_zlaset_success

\* C18 witness: the call on a 3 by 3 matrix in four tiles with a row of
\* padding, upper part, has finished and has changed the array.
C18_Witness ==
    /\ LasetDone
    /\ laset.uplo = "PlasmaUpper"
    /\ laset.m = 3
    /\ laset.n = 3
    /\ laset.lda = 4
    /\ laset.desc.mt * laset.desc.nt = 4
    /\ laset.A # laset.Aref

\* -------------------------------------------------------------------------
\* Argument validation of PLASMA_ztrmm
\* -------------------------------------------------------------------------
\* PLASMA_ztrmm has returned without opening its parallel region.
ZtrmmReturnedEarly ==
    /\ master.routine = "PLASMA_ztrmm"
    /\ master.done
    /\ ~master.entered

\* The 1-based position, in the parameter list (side, uplo, transA, diag, n,
\* nrhs, alpha, A, lda, B, ldb), of the first argument of the call that
\* fails its test; 0 when every argument passes.
ZtrmmFirstIllegal ==
    LET a  == master.args
        na == IF a[1] = "PlasmaLeft" THEN a[5] ELSE a[6]
    IN  IF a[1] \notin {"PlasmaLeft", "PlasmaRight"} THEN 1
        ELSE IF a[2] \notin {"PlasmaUpper", "PlasmaLower"} THEN 2
        ELSE IF a[3] \notin {"PlasmaNoTrans", "PlasmaTrans",
                             "PlasmaConjTrans"} THEN 3
        ELSE IF a[4] \notin {"PlasmaUnit", "PlasmaNonUnit"} THEN 4
        ELSE IF a[5] < 0 THEN 5
        ELSE IF a[6] < 0 THEN 6
        ELSE IF a[9] < imax(1, na) THEN 9
        ELSE IF a[11] < imax(1, a[5]) THEN 11
        ELSE 0

\* C21 (as claimed): PLASMA_ztrmm returns -i for the first illegal argument,
\* i being the position of that argument in the parameter list, and returns
\* PLASMA_SUCCESS without submitting a task when the arguments are legal and
\* min(n, nrhs) = 0.
C21_ArgumentPositionsAsClaimed ==
    ZtrmmReturnedEarly =>
        IF ZtrmmFirstIllegal # 0
        THEN master.ret = 0 - ZtrmmFirstIllegal
        ELSE imin(master.args[5], master.args[6]) = 0
                => (master.ret = PlasmaSuccess /\ nextId = 0)

\* What the code does: the positions 1..6 are reported as documented, an
\* illegal lda as -8 and an illegal ldb as -10; the quick return holds.
ZtrmmCodesReturned ==
    ZtrmmReturnedEarly =>
        LET i == ZtrmmFirstIllegal
        IN  IF i \in 1..6 THEN master.ret = 0 - i
            ELSE IF i = 9 THEN master.ret = 0 - 8
            ELSE IF i = 11 THEN master.ret = 0 - 10
            ELSE imin(master.args[5], master.args[6]) = 0
                    => (master.ret = PlasmaSuccess /\ nextId = 0)

\* A call whose first illegal argument is lda has returned.
ZtrmmIllegalLda ==
    /\ ZtrmmReturnedEarly
    /\ ZtrmmFirstIllegal = 9

\* A call with legal arguments and min(n, nrhs) = 0 has returned.
ZtrmmQuickReturned ==
    /\ ZtrmmReturnedEarly
    /\ ZtrmmFirstIllegal = 0
    /\ imin(master.args[5], master.args[6]) = 0

\* -------------------------------------------------------------------------
\* Resources of the synchronous entry points
\* -------------------------------------------------------------------------
\* How often the entry point has released resource r.
TimesFreed(r) ==
    Cardinality({ k \in 1..Len(master.freed) : master.freed[k] = r })

CreatedSet == { master.created[k] : k \in 1..Len(master.created) }

\* Every resource the entry point created has been released exactly once,
\* and nothing else has been released.
AllReleasedOnce ==
    /\ \A r \in CreatedSet : TimesFreed(r) = 1
    /\ \A k \in 1..Len(master.freed) : master.freed[k] \in CreatedSet

\* C22 (as claimed): in PLASMA_zgeqrs the tile descriptors A and B, the
\* workspace and the sequence are all created before the parallel region
\* opens and none is released before the join; and whenever the function has
\* returned, on any path, each resource that was created has been released
\* exactly once.
C22_ScopedResourcesAsClaimed ==
    master.routine = "PLASMA_zgeqrs" =>
        /\ (master.entered /\ ~master.done) =>
              /\ CreatedSet = {"A", "B", "work", "sequence"}
              /\ master.freed = << >>
        /\ master.done => AllReleasedOnce

\* What the code does: the resources are held throughout the parallel
\* region and released once behind the join; a return before the region
\* releases at most the descriptor A.
ZgeqrsReleases ==
    master.routine = "PLASMA_zgeqrs" =>
        /\ (master.entered /\ ~master.done) =>
              /\ CreatedSet = {"A", "B", "work", "sequence"}
              /\ master.freed = << >>
        /\ (master.entered /\ master.done) => AllReleasedOnce
        /\ (master.done /\ ~master.entered) =>
              master.freed = IF master.created = << "A" >>
                             THEN << "A" >> ELSE << >>

\* PLASMA_zgeqrs has returned after plasma_workspace_alloc failed.
ZgeqrsWorkspaceFailed ==
    /\ master.routine = "PLASMA_zgeqrs"
    /\ master.done
    /\ master.fault = "allocation"
    /\ master.created = << "A", "B" >>

\* PLASMA_zgeqrs has returned behind its parallel region.
ZgeqrsJoined ==
    /\ master.routine = "PLASMA_zgeqrs"
    /\ master.entered
    /\ master.done

\* -------------------------------------------------------------------------
\* PLASMA_ztrmm with alpha = 0
\* -------------------------------------------------------------------------
\* PLASMA_ztrmm has returned PLASMA_SUCCESS from a call with alpha = 0 and
\* non-empty A and B.
ZtrmmAlphaZeroDone ==
    /\ master.routine = "PLASMA_ztrmm"
    /\ master.entered
    /\ master.done
    /\ master.ret = PlasmaSuccess
    /\ master.args[7] = 0
    /\ master.args[5] >= 1
    /\ master.args[6] >= 1

\* The elements of the n-by-nrhs user array B of the call.
ZtrmmBElems ==
    { e \in Elems : e[1] < master.args[5] /\ e[2] < master.args[6] }

\* C23 (as claimed): after a successful call of PLASMA_ztrmm with alpha = 0
\* and non-empty A and B, every element of B is zero (B := 0 * op(A) * B).
C23_AlphaZeroAsClaimed ==
    ZtrmmAlphaZeroDone =>
        \A e \in ZtrmmBElems : mem.user["B"][e] = 0

\* What the code does: with alpha = 0 PLASMA_ztrmm_Tile_Async returns before
\* plasma_pztrmm, no kernel updates a tile, and B holds what it held on
\* entry.
AlphaZeroLeavesB ==
    ZtrmmAlphaZeroDone =>
        /\ mem.touched = {}
        /\ \A e \in ZtrmmBElems :
              mem.user["B"][e] = ArrayVal("B", e[1], e[2])

\* -------------------------------------------------------------------------
\* The symmetric sum of squares
\* -------------------------------------------------------------------------
NormSq(z) == z[1] * z[1] + z[2] * z[2]

\* scale^2 * sumsq of the pair at idx.
PairValue(idx) == RatMul(Rat(ssq.scale[idx] * ssq.scale[idx], 1), ssq.sumsq[idx])

\* Entry (r, c) of a tile of order nb lies strictly inside the uplo triangle.
InTriangle(r, c) == IF ssq.uplo = "PlasmaUpper" THEN r < c ELSE r > c

\* 2 * sum of |offdiag|^2 over the uplo triangle of diagonal tile k plus the
\* sum of |diag|^2 over the diagonal entries: those with a non-zero real
\* part (TileSquaresReal), all of them (TileSquares).
RealDiagonal(z) == creal(z) # 0

TileSquaresReal(k) ==
    LET n == ssq.nb
        T == SsqTile(k, k)
    IN  SumFn([x \in 0..(n * n - 1) |->
                 LET r == x % n
                     c == x \div n
                 IN  IF r = c
                     THEN IF RealDiagonal(T[<<r, c>>])
                          THEN NormSq(T[<<r, c>>]) ELSE 0
                     ELSE IF InTriangle(r, c) THEN 2 * NormSq(T[<<r, c>>])
                     ELSE 0], n * n)

TileSquares(k) ==
    LET n == ssq.nb
        T == SsqTile(k, k)
    IN  SumFn([x \in 0..(n * n - 1) |->
                 LET r == x % n
                     c == x \div n
                 IN  IF r = c THEN NormSq(T[<<r, c>>])
                     ELSE IF InTriangle(r, c) THEN 2 * NormSq(T[<<r, c>>])
                     ELSE 0], n * n)

RECURSIVE RatSum(_, _)
RatSum(f, k) == IF k = 0 THEN Rat(0, 1) ELSE RatAdd(f[k - 1], RatSum(f, k - 1))

\* The pairs of the tiles combined with weight 2 below the diagonal and
\* weight 1 on it.
WeightedPairs ==
    LET n == ssq.nt
        w == [x \in 0..(n * n - 1) |->
                LET i == x % n
                    j == x \div n
                IN  IF i = j THEN PairValue(x)
                    ELSE IF i > j THEN RatMul(Rat(2, 1), PairValue(x))
                    ELSE Rat(0, 1)]
    IN  RatSum(w, n * n)

\* C24 (as claimed): core_zsyssq leaves scale^2 * sumsq equal to twice the
\* sum of |a|^2 over the strictly triangular entries of the uplo triangle
\* plus the sum of |a|^2 over all diagonal entries, also those with zero real
\* and non-zero imaginary part; and core_omp_zsyssq_aux returns the square
\* root of the pairs combined with weight 2 below the diagonal and weight 1
\* on it.
C24_SumOfSquaresAsClaimed ==
    /\ \A k \in 0..(ssq.nt - 1) :
          SsqIdx(k, k) \in ssq.done =>
              PairValue(SsqIdx(k, k)) = Rat(TileSquares(k), 1)
    /\ ssq.valued => ssq.value = WeightedPairs

\* What the code does on a tile: a diagonal entry counts only if its real
\* part is not zero.
TileSumCountsRealDiagonal ==
    \A k \in 0..(ssq.nt - 1) :
        SsqIdx(k, k) \in ssq.done =>
            PairValue(SsqIdx(k, k)) = Rat(TileSquaresReal(k), 1)

\* What the code does in core_omp_zsyssq_aux: the weighted combination,
\* unless a quotient was taken with divisor zero.
AuxCombinesUnlessDivZero ==
    ssq.valued =>
        IF ssq.divzero THEN NotFinite(ssq.value)
        ELSE ssq.value = WeightedPairs

\* A diagonal tile with a purely imaginary diagonal entry has its pair.
ImaginaryDiagonalDone ==
    \E k \in 0..(ssq.nt - 1), i \in 0..(ssq.nb - 1) :
        /\ SsqIdx(k, k) \in ssq.done
        /\ SsqTile(k, k)[<<i, i>>] = <<0, 2>>

\* core_omp_zsyssq_aux has combined the pairs of a matrix of several tiles
\* without dividing by zero.
AuxCombinedSeveral ==
    /\ ssq.valued
    /\ ssq.nt > 1
    /\ ~ssq.divzero
    /\ ssq.value.num > 0

\* -------------------------------------------------------------------------
\* Divisors and reads of core_omp_zsyssq_aux
\* -------------------------------------------------------------------------
\* depend(in:scale[0:n]) depend(in:sumsq[0:n]): the indices the task of
\* core_omp_zsyssq_aux(m, n, ...) declares as its input.
AuxDeclaredInput == 0..(ssq.nt - 1)

\* C30 (as claimed): core_omp_zsyssq_aux never evaluates a quotient whose
\* divisor is zero, also when tiles are entirely zero, and every index
\* m*j+i it reads from scale and sumsq lies inside the region its task
\* declares as input dependence.
C30_AuxDivisorsAndReadsAsClaimed ==
    ssq.valued =>
        /\ ~ssq.divzero
        /\ ssq.reads \subseteq AuxDeclaredInput

\* What the code does: it divides 0 by 0 exactly when the first pair it
\* reads has scale 0, and it reads the pairs of all tiles on and below the
\* diagonal.
AuxDividesByZeroOnZeroFirst ==
    ssq.valued =>
        /\ ssq.divzero = (ssq.scale[IF ssq.nt = 1 THEN 0 ELSE 1] = 0)
        /\ ssq.reads = SsqLower

\* core_omp_zsyssq_aux has run on the pairs of a matrix that is entirely
\* zero.
AuxOnZeroMatrix ==
    /\ ssq.valued
    /\ \A e \in DOMAIN ssq.A : ssq.A[e] = <<0, 0>>

\* core_omp_zsyssq_aux has run on a matrix of several tile rows.
AuxOnSeveralTiles ==
    /\ ssq.valued
    /\ ssq.nt > 1

\* -------------------------------------------------------------------------
\* Size of the per-worker workspace of the panel kernels
\* -------------------------------------------------------------------------
\* The kernel of panel task t, which works on a full nb-by-nb tile with
\* inner blocking ib >= 1, returns in this step.
PanelKernelEnds(t) ==
    /\ t.kind \in {"zgeqrt", "zgelqt"}
    /\ t.pc = "kernel"
    /\ t \notin tasks'
    /\ t.args[1] = viewA.nb
    /\ t.args[2] = viewA.nb
    /\ t.args[3] >= 1

NoErrorRecorded == UNCHANGED <<seqStatus, reqStatus, failLog>>

\* C25 (as claimed): when core_omp_zgeqrt or core_omp_zgelqt runs on a full
\* nb-by-nb tile with ib >= 1 and a workspace of lwork = ib*nb elements, the
\* argument checks of the kernel pass and no error is recorded.
C25_WorkspaceAsClaimed ==
    [][\A t \in tasks :
          (PanelKernelEnds(t) /\ t.args[6] = t.args[3] * viewA.nb)
              => NoErrorRecorded]_vars

\* C25 (amended): the buffer is split into ltau = nb elements of TAU and the
\* kernel's WORK, so a workspace of at least nb + ib*nb elements is
\* sufficient (no error is recorded), and with a smaller workspace, ib*nb
\* elements included, the lwork check of the kernel fails and
\* PlasmaErrorIllegalValue is recorded on the sequence and the request.
C25_WorkspaceSufficient ==
    [][\A t \in tasks :
          PanelKernelEnds(t) =>
              IF t.args[6] >= viewA.nb + t.args[3] * viewA.nb
              THEN NoErrorRecorded
              ELSE /\ failLog' = Append(failLog, PlasmaErrorIllegalValue)
                   /\ seqStatus' # PlasmaSuccess
                   /\ reqStatus'[t.req] # PlasmaSuccess]_vars

\* Both panel kernels have run with a workspace of nb + ib*nb elements and
\* written their tiles; no error is recorded.
C25_Witness ==
    /\ <<"zgeqrt", FALSE>> \in outWrites
    /\ <<"zgelqt", FALSE>> \in outWrites
    /\ tasks = {}
    /\ nextId = 2
    /\ failLog = << >>
    /\ seqStatus = PlasmaSuccess

\* A panel kernel handed a workspace of ib*nb elements has failed.
PanelWorkspaceTooSmall ==
    /\ failLog # << >>
    /\ outWrites = {}
    /\ tasks = {}

\* -------------------------------------------------------------------------
\* C26: the blocking loop of core_zgeqrt and core_zgelqt
\* -------------------------------------------------------------------------
LoopK == imin(loop.m, loop.n)

LoopChecksPass ==
    IF loop.kind = "zgeqrt"
    THEN core_zgeqrt(loop.m, loop.n, loop.ib, loop.lda, loop.ldt,
                     loop.lwork) = PlasmaSuccess
    ELSE core_zgelqt(loop.m, loop.n, loop.ib, loop.lda, loop.ldt,
                     loop.lwork) = PlasmaSuccess

\* The panels handled so far are consecutive from 0, each 1..ib wide and
\* inside [0, k), and zlarfb ran exactly for those with columns (zgeqrt) or
\* rows (zgelqt) left beyond the panel.
LoopPanelsInOrder ==
    \A x \in 1..Len(loop.calls) :
        LET c == loop.calls[x]
            rest == IF loop.kind = "zgeqrt" THEN loop.n ELSE loop.m
        IN  /\ c.i = (IF x = 1 THEN 0
                      ELSE loop.calls[x - 1].i + loop.calls[x - 1].sb)
            /\ c.sb \in 1..loop.ib
            /\ c.i + c.sb <= LoopK
            /\ c.larfb <=> (c.i + c.sb < rest)

LoopState ==
    /\ loop.pc = "loop" =>
          /\ LoopPanelsInOrder
          /\ Len(loop.calls) <= CeilDiv(LoopK, loop.ib)
    /\ (loop.pc = "done" /\ LoopChecksPass) =>
          /\ loop.ret = PlasmaSuccess
          /\ IF loop.m = 0 \/ loop.n = 0 \/ loop.ib = 0
             THEN loop.calls = << >>
             ELSE /\ LoopPanelsInOrder
                  /\ Len(loop.calls) = CeilDiv(LoopK, loop.ib)
                  /\ LET last == loop.calls[Len(loop.calls)]
                     IN  last.i + last.sb = LoopK

\* C26: a call of core_zgeqrt or core_zgelqt whose arguments pass the checks
\* returns; with m, n > 0 it does so after ceil(min(m,n)/ib) iterations whose
\* panels [i, i+sb), sb in 1..ib, partition [0, min(m,n)) and whose zlarfb
\* update ran exactly where columns resp. rows remained; with m = 0, n = 0
\* or ib = 0 it returns PlasmaSuccess having made no LAPACK call.
C26_PanelLoop == [](loop.pc # "idle" => LoopState) /\ <>(loop.pc = "done")

\* C26 witness: a kernel has returned after two iterations, the last panel
\* narrower than ib, with and without a zlarfb update among them.
C26_Witness ==
    /\ loop.pc = "done"
    /\ loop.ret = PlasmaSuccess
    /\ Len(loop.calls) = 2
    /\ loop.calls[2].sb < loop.ib
    /\ loop.calls[1].larfb
    /\ ~loop.calls[2].larfb

\* -------------------------------------------------------------------------
\* C27: what PLASMA_ztrmm releases on its return paths
\* -------------------------------------------------------------------------
ZtrmmAllCreated ==
    /\ master.routine = "PLASMA_ztrmm"
    /\ master.created = << "A", "B", "sequence" >>

\* The master thread passes one statement of the parallel region while the
\* sequence has already failed.
ZtrmmPassesCallAfterFailure ==
    /\ master.routine = "PLASMA_ztrmm"
    /\ master.entered
    /\ master'.pc = master.pc + 1
    /\ seqStatus # PlasmaSuccess

\* C27 (as claimed): once descA, descB and the sequence are created, every
\* return of PLASMA_ztrmm, the one on a failed sequence behind the parallel
\* region included, has been preceded by the release of both tile matrices
\* and of the sequence; and inside the region no Async call is made once the
\* sequence status is not PLASMA_SUCCESS.
C27_ReleasesAsClaimed ==
    /\ []((ZtrmmAllCreated /\ master.done) => AllReleasedOnce)
    /\ [][ZtrmmPassesCallAfterFailure => SkipCall]_vars

\* What the code does on its returns: a successful sequence releases all
\* three; a failed one releases nothing.
ZtrmmReleases ==
    (ZtrmmAllCreated /\ master.done) =>
        IF master.ret = PlasmaSuccess
        THEN AllReleasedOnce
        ELSE master.freed = << >>

\* The second half of C27 on the code: every statement passed on a failed
\* sequence is a guarded call that is not made.
ZtrmmNoCallAfterFailure == [][ZtrmmPassesCallAfterFailure => SkipCall]_vars

\* PLASMA_ztrmm has returned the status of a sequence that failed inside the
\* parallel region.
ZtrmmFailedInRegion ==
    /\ ZtrmmAllCreated
    /\ master.entered
    /\ master.done
    /\ master.ret # PlasmaSuccess

\* PLASMA_ztrmm is about to skip its last translation on a failed sequence.
ZtrmmSkipping ==
    /\ ZtrmmAllCreated
    /\ master.entered
    /\ master.pc = 5
    /\ seqStatus # PlasmaSuccess

\* -------------------------------------------------------------------------
\* C28: the storage tiles addressed by plasma_pzoocm2ccrb_band
\* -------------------------------------------------------------------------
\* The general-storage tile row kut + m - n of the visited tile of task t.
BandRow(t) == band_kut(viewA.uplo, viewA) + t.args[2] - t.args[3]

BandRowInRange(t) == BandRow(t) >= 0 /\ BandRow(t) < viewA.lmt

BandBlockPositive(t) == t.args[4] >= 1 /\ t.args[5] >= 1

\* Distinct visited tiles are handed distinct storage tiles.
BandTilesDistinct ==
    \A t \in tasks, u \in tasks :
        (<< t.args[2], t.args[3] >> # << u.args[2], u.args[3] >>) =>
            /\ << BandRow(t), t.args[3] >> # << BandRow(u), u.args[3] >>
            /\ t.args[11] # u.args[11]

\* C28 (as claimed): for every band descriptor with kl, ku >= 0 and mb = nb
\* and every uplo, each tile (m, n) visited by plasma_pzoocm2ccrb_band is
\* mapped to the storage tile row kut + m - n with 0 <= kut + m - n < lmt,
\* its mb and nb are at least 1, and distinct visited tiles map to distinct
\* storage tiles.
C28_BandIndicesAsClaimed ==
    BandJustCalled =>
        /\ \A t \in tasks : BandRowInRange(t) /\ BandBlockPositive(t)
        /\ BandTilesDistinct

\* What holds on the code: the block sizes are positive for every uplo, and
\* for Upper and Lower, and for General with kl = ku, the rows are in range
\* and the storage tiles distinct.
BandIndicesOneSided ==
    BandJustCalled =>
        /\ \A t \in tasks : BandBlockPositive(t)
        /\ (viewA.uplo # "PlasmaGeneral" \/ viewA.kl = viewA.ku) =>
              /\ \A t \in tasks : BandRowInRange(t)
              /\ BandTilesDistinct

\* A General band with ku > kl: a visited tile above the diagonal is mapped
\* to a negative storage tile row.
BandRowNegative ==
    /\ BandJustCalled
    /\ \E t \in tasks : BandRow(t) < 0

\* A General band with kl > ku: a visited tile below the diagonal is mapped
\* to a storage tile row beyond the last.
BandRowBeyond ==
    /\ BandJustCalled
    /\ \E t \in tasks : BandRow(t) >= viewA.lmt

\* Two visited tiles have been handed the same storage address.
BandTilesCollide ==
    /\ BandJustCalled
    /\ ~BandTilesDistinct

\* -------------------------------------------------------------------------
\* C29: where the tile copies of plasma_pdge2desc write and read
\* -------------------------------------------------------------------------
\* plasma_pdge2desc has submitted its tasks and none has run yet.
CopyJustCalled ==
    /\ lastCall.name = "plasma_pdge2desc"
    /\ lastCall.submitted > 0
    /\ Cardinality(tasks) = lastCall.submitted

\* Tile row and column of the copy task t: the tasks are numbered from 0,
\* tile rows outermost.
CopyTileM(t) == t.id \div viewA.nt
CopyTileN(t) == t.id % viewA.nt

\* The offsets from the address of its tile that task t writes.
CopyDestOffsets(t) ==
    { (t.args[5] - plasma_tile_addr(viewA, CopyTileM(t), CopyTileN(t)))
        + c * t.args[6] + r :
        r \in 0..(t.args[1] - 1), c \in 0..(t.args[2] - 1) }

\* The absolute places in tile storage that task t writes.
CopyDestPlaces(t) ==
    { t.args[5] + c * t.args[6] + r :
        r \in 0..(t.args[1] - 1), c \in 0..(t.args[2] - 1) }

\* The indices of pA that task t reads.
CopySourceIndices(t) ==
    { t.args[3] + c * t.args[4] + r :
        r \in 0..(t.args[1] - 1), c \in 0..(t.args[2] - 1) }

CopyInsideOwnTile(t) ==
    \A d \in CopyDestOffsets(t) :
        /\ d >= 0
        /\ d < plasma_tile_mmain(viewA, CopyTileM(t))
               * plasma_tile_nmain(viewA, CopyTileN(t))

CopiesDisjoint ==
    \A t \in tasks, u \in tasks :
        t # u => CopyDestPlaces(t) \cap CopyDestPlaces(u) = {}

\* Every index read lies in the lda-by-ln column-major array of the matrix.
CopySourcesInside ==
    \A t \in tasks : \A s \in CopySourceIndices(t) :
        /\ s >= 0
        /\ s < pAlda * descA.ln

\* C29 (as claimed): for every descriptor and every tile (m, n) each
\* destination index written by the copy of plasma_pdge2desc is below
\* tile_mmain(m)*tile_nmain(n), the copies of different tiles write no common
\* element, and every source index lies inside the user array.
C29_CopiesInsideAsClaimed ==
    CopyJustCalled =>
        /\ \A t \in tasks : CopyInsideOwnTile(t)
        /\ CopiesDisjoint
        /\ CopySourcesInside

\* What holds on the code: the source indices are inside the array, and the
\* destination stays in its tile whenever the subblock starts at column 0 of
\* the tile or the tile row has the full height nb.
CopiesInsideWhenAligned ==
    CopyJustCalled =>
        /\ CopySourcesInside
        /\ \A t \in tasks :
              (\/ pdge2desc_x1(viewA, CopyTileN(t)) = 0
               \/ plasma_tile_mmain(viewA, CopyTileM(t)) = viewA.nb)
                 => CopyInsideOwnTile(t)

\* A copy is about to write beyond the storage of its own tile.
CopyLeavesTile ==
    /\ CopyJustCalled
    /\ \E t \in tasks : ~CopyInsideOwnTile(t)

\* Two copies are about to write the same element of tile storage.
CopiesOverlap ==
    /\ CopyJustCalled
    /\ ~CopiesDisjoint

====
